---------------------------- MODULE Spec2Model ----------------------------
(***************************************************************************)
(* Garage-door communication engine of homekit-ratgdo32 (src/src/comms.cpp) *)
(* as a state machine: the protocol-1 (Security+ 1.0) and protocol-2        *)
(* (Security+ 2.0) service ticks, the command queue, the rolling-code       *)
(* counter and its persistence, and the door model with its notifications.  *)
(*                                                                          *)
(* One action models one whole handler.  The environment's inputs (the byte *)
(* or frame received, the level of the bus, the time that passes between    *)
(* ticks) are drawn with \E from small sets.  Variables whose name starts   *)
(* with h_ are history variables: they record what a handler did and are    *)
(* never read by the modelled code.                                         *)
(***************************************************************************)
EXTENDS Integers, Sequences, FiniteSets, TLC

VARIABLES
    doorControlType,   \* comms.cpp:54   1 = Security+1.0, 2 = Security+2.0
    garage_door,       \* ratgdo.cpp:39  the door model (struct GarageDoor)
    TTCcountdown,      \* comms.cpp:58   ticks left of a time-to-close delay
    TTCtimerAttached,  \* comms.cpp:57   whether TTCtimer is attached
    TTCwasLightOn,     \* comms.cpp:59   the light as the countdown found it
    TTC_Action,        \* comms.cpp:60   what the countdown calls when it ends
    TTCseconds,        \* config.h:120   userConfig->getTTCseconds()
    softAPmode,        \* comms.cpp:1596 userConfig cfg_softAPmode
    motionTriggers,    \* the motion trigger bits that are set
    force_recover,     \* comms.cpp:62   push_count and time since it was armed
    obstruction_sensor,\* comms.cpp:67   low_count and time since last asleep
    since_check,       \* millis() - last_millis (comms.cpp:1612), saturating
    pkt_q,             \* comms.cpp:48   the command queue, head first
    retryCount,        \* comms.cpp:652 / 716  static retry counter of the tick
    rolling_code,      \* comms.cpp:82
    last_saved_code,   \* comms.cpp:83
    nvram_rolling,     \* the persisted rolling counter (nvRam key nvram_rolling)
    doorState,         \* comms.cpp:97   protocol-1 committed door state
    prevDoor,          \* comms.cpp:452  static: last accepted door value
    gd_currentstate,   \* comms.cpp:536  static: last notified current state
    gd_TargetState,    \* comms.cpp:565  static: last notified target state
    lightState,        \* comms.cpp:98   protocol-1 light bit, 2 = not yet seen
    lockState,         \* comms.cpp:99   protocol-1 lock value, 2 = not yet seen
    lastLightState,    \* comms.cpp:595  static: last announced light, 255 at boot
    lastLockState,     \* comms.cpp:613  static: last announced lock, 255 at boot
    reading_msg,       \* comms.cpp:319  static: a two-byte message is half read
    rx_key,            \* comms.cpp:321  rx_packet[0], first byte of the message
    wallPanelDetected, \* comms.cpp:96
    wallplateBooting,  \* comms.cpp:95
    serialDetected,    \* comms.cpp:249  static: bus traffic has been seen
    inWindow,          \* comms.cpp:263  currentMillis - serialDetected < 15000
    emulateWallPanel,  \* comms.cpp:248  static
    stateIndex,        \* comms.cpp:250  static: next entry of secplus1States
    since_request,     \* millis() - lastRequestMillis (comms.cpp:247), saturating
    cmdDelay,          \* comms.cpp:649  static: delay owed after the last send
    since_rx,          \* millis() - last_rx   (comms.cpp:90), saturating
    since_tx,          \* millis() - last_tx   (comms.cpp:91), saturating
    notified,          \* h: notifications emitted by the last handler, by kind
    h_event,           \* h: what the last handler processed
    h_prev_door,       \* h: garage_door as it was before the last handler
    h_prev_sec1,       \* h: protocol-1 decoder state before the last handler
    h_door_vals,       \* h: low 3 bits of the last two accepted door values
    h_next_id,         \* h: number of enqueue attempts made so far
    h_rejected,        \* h: ids of the enqueue attempts rejected (queue full)
    h_sent,            \* h: ids of the actions written to the bus, in order
    h_tx,              \* h: what the transmit part of the last tick did
    h_fails,           \* h: failed attempts so far of the action at the head
    h_prev_q,          \* h: the queue as it was before the last handler
    h_did,             \* h: what the last handler called and decoded
    h_ttc,             \* h: the countdown: its seed, ticks, end actions fired
    h_seq,             \* h: the press sequence: presses, age, requests made
    h_tx_age,          \* h: time since the last frame or byte was written
    h_tx_delay,        \* h: declared delay of the last action written
    h_rx_age,          \* h: time since the last byte was received
    h_min_since,       \* h: least rolling code encoded since the last restart
    h_max_since,       \* h: greatest rolling code encoded since the last restart
    h_max_before,      \* h: greatest rolling code encoded before the last restart
    h_nv_before,       \* h: persisted counter as the last restart found it
    h_restarts         \* h: number of restarts so far

vars == << doorControlType, garage_door, TTCcountdown, TTCtimerAttached,
           TTCwasLightOn, TTC_Action, TTCseconds, softAPmode, motionTriggers,
           force_recover, obstruction_sensor, since_check, h_did, h_ttc, h_seq,
           pkt_q,
           retryCount, rolling_code, last_saved_code, nvram_rolling, doorState,
           prevDoor, gd_currentstate, gd_TargetState, lightState, lockState,
           lastLightState, lastLockState, reading_msg, rx_key,
           wallPanelDetected, wallplateBooting, serialDetected, inWindow,
           emulateWallPanel, stateIndex, since_request,
           cmdDelay, since_rx, since_tx, notified, h_event, h_prev_door,
           h_prev_sec1, h_door_vals, h_next_id, h_rejected, h_sent, h_tx,
           h_fails, h_prev_q, h_tx_age, h_tx_delay,
           h_rx_age, h_min_since, h_max_since, h_max_before, h_nv_before,
           h_restarts >>

-----------------------------------------------------------------------------
(* Program constants *)

MAX_CODES_WITHOUT_FLASH_WRITE == 10
MAX_COMMS_RETRY == 10
QUEUE_LENGTH == 5
CodeMask == 268435455

(* Bounds of the model *)

MaxEnq == 10
MaxRestarts == 2
MaxEnqRestart == 2
MaxEnqQueue == 5
MaxEnqTiming == 3
MaxBusy == 2

None == 0 - 1

-----------------------------------------------------------------------------
(* The door model *)

DoorStates == {"Unknown", "Open", "Closed", "Stopped", "Opening", "Closing"}

\* struct GarageDoor of a freshly booted device: the global is zero-initialised
\* (0 is OPEN for both door enums, UNLOCK for target_lock) and the HomeKit
\* service constructor sets current_lock to CURR_UNKNOWN.
GarageDoorInit ==
    [ active        |-> FALSE,
      current_state |-> "Open",
      target_state  |-> "Open",
      light         |-> FALSE,
      current_lock  |-> "Unknown",
      target_lock   |-> "Unlocked",
      obstructed    |-> FALSE,
      motion        |-> FALSE ]

NoNotes ==
    [ cur |-> 0, tgt |-> 0, light |-> 0, lockT |-> 0, lockC |-> 0,
      obst |-> 0, motion |-> 0 ]

\* h: what a handler called and decoded.  set_light, door: the values and
\* door actions it called set_light and door_command with, in order; end: the
\* end action the countdown fired; recovery: recovery mode was requested;
\* late: a byte was read while a message was half read and more than
\* RxTimeout ms after the byte before it; asValue: the byte read was taken as
\* the value byte of the half-read message; decoded: the door state decoded;
\* key, val: the complete message dispatched, if any.
\* call: the entry point that ran; countdown, attached: TTCcountdown and the
\* timer as the handler found them; window: obstruction_timer closed a
\* sampling window; pulses, high, asleep: the pulse count, the line level and
\* the time since the last asleep observation it found.
NoDid ==
    [ set_light |-> << >>, door |-> << >>, end |-> "none", recovery |-> FALSE,
      late |-> FALSE, asValue |-> FALSE, decoded |-> "none",
      key |-> None, val |-> None,
      call |-> "none", countdown |-> 0, attached |-> FALSE,
      window |-> FALSE, pulses |-> 0, high |-> FALSE, asleep |-> 0 ]

\* h: no countdown has run yet
\* seed: the delay in seconds it was started with; ticks: runs of
\* TTCdelayLoop since; toggles, doors: ticks that called set_light and
\* door_command; fired: the tick on which the end action ran (0: not yet);
\* cancelled: a door status or a request stopped it; late: ticks after that;
\* requests: open and close requests made so far.
NoCountdown ==
    [ seed |-> 0, ticks |-> 0, toggles |-> 0, doors |-> 0, fired |-> 0,
      cancelled |-> FALSE, late |-> 0, requests |-> 0 ]

\* h: no press has been seen yet.
\* presses: presses of the sequence, which opens with a press and takes in
\* those no later than 3 s after it; age: time since that first press;
\* requests: recovery requests made at its presses; total: presses since boot.
NoPresses == [ presses |-> 0, age |-> 0, requests |-> 0, total |-> 0 ]

\* The obstruction sensor is taken for asleep when the line has been high
\* with no pulse for longer than this (ms); the time since it was last seen
\* asleep saturates just above it.
AsleepTimeout == 700
AsleepCap == AsleepTimeout + 1

\* What the bus handlers and the queue leave alone
SettingsUnchanged == UNCHANGED << TTCseconds, softAPmode, motionTriggers >>

ObstructionUnchanged == UNCHANGED << obstruction_sensor, since_check >>

RecoveryUnchanged == UNCHANGED << force_recover, h_seq >>

CountdownUnchanged == UNCHANGED << TTCwasLightOn, TTC_Action, h_ttc >>

Bump(n, k) == [n EXCEPT ![k] = @ + 1]

-----------------------------------------------------------------------------
(* The command queue: a FreeRTOS queue of QUEUE_LENGTH PacketActions.  A    *)
(* PacketAction is [kind, arg, inc_counter, delay]; id is a history field   *)
(* naming the enqueue attempt that created it.                              *)

PacketAction(kind, arg, inc, delay, id) ==
    [ kind |-> kind, arg |-> arg, inc_counter |-> inc, delay |-> delay, id |-> id ]

xQueueSendToBack_Unbounded(q, a) == Append(q, a)

\* xQueueSendToBack(pkt_q, &a, 0): rejected (errQUEUE_FULL) when the queue is full
xQueueSendToBack(q, a) ==
    IF Len(q) >= QUEUE_LENGTH THEN q ELSE Append(q, a)

\* xQueueSendToFront(pkt_q, &a, 0), errors ignored
xQueueSendToFront(q, a) ==
    IF Len(q) >= QUEUE_LENGTH THEN q ELSE << a >> \o q

\* Enqueue the actions of `as` one after the other, each given the next id.
RECURSIVE SendAllToBack(_, _, _)
SendAllToBack(q, as, id) ==
    IF as = << >> THEN q
    ELSE SendAllToBack(xQueueSendToBack(q, [Head(as) EXCEPT !.id = id]),
                       Tail(as), id + 1)

\* The ids, counted from id, of those of n successive enqueues on q that the
\* full queue rejects
RejectedIds(q, n, id) ==
    { id + i : i \in { j \in 0..(n - 1) : Len(q) + j >= QUEUE_LENGTH } }

-----------------------------------------------------------------------------
(* Rolling code *)

\* rolling_code = (rolling_code + 1) & 0xfffffff
NextCode(rc) == (rc + 1) % (CodeMask + 1)

CodeAfterSend_Always(rc, a) == NextCode(rc)

\* The counter after transmitSec2 has sent an action
CodeAfterSend(rc, a) == IF a.inc_counter THEN NextCode(rc) ELSE rc

NeedsSave_Late(rc, saved) == rc > saved + MAX_CODES_WITHOUT_FLASH_WRITE

\* comms_loop_sec2's trailing check: save when MAX_CODES_WITHOUT_FLASH_WRITE
\* codes have been consumed since the last save
NeedsSave(rc, saved) == rc >= saved + MAX_CODES_WITHOUT_FLASH_WRITE

\* setup_comms: bump the persisted counter, except a counter of 0.  The sum is
\* not masked; a persisted counter never comes near the 32-bit limit, since
\* every send masks the counter to 28 bits.
BumpedCode(nv) ==
    IF nv /= 0 THEN nv + MAX_CODES_WITHOUT_FLASH_WRITE ELSE 0

Min(a, b) == IF a < b THEN a ELSE b
Max(a, b) == IF a > b THEN a ELSE b
MinUsed(m, rc) == IF m = None THEN rc ELSE Min(m, rc)

-----------------------------------------------------------------------------
(* Transmit part of a tick, both protocols.                                 *)
(* process_PacketAction's result is `ok`; `written` tells whether a frame   *)
(* or byte went onto the bus.                                               *)

NoTx == [ attempt |-> FALSE, ok |-> FALSE, written |-> FALSE, requeued |-> FALSE,
          dropped |-> FALSE, id |-> None, retry |-> 0, fails |-> 0,
          since_rx |-> 0, since_tx |-> 0, owed |-> 0, panel |-> FALSE ]

\* h: how many entries of the queue q carry the id i
Occurrences(q, i) == Cardinality({ k \in 1..Len(q) : q[k].id = i })

\* h: the record of an attempt to send the dequeued action a.  written: a
\* frame or byte went onto the bus; q1: the queue after the attempt; retry:
\* retryCount before it; fails: earlier failed attempts of this action; srx,
\* stx: time since the last received and the last written byte; owed: the
\* declared delay of the action last written; panel: wallPanelDetected.
TxRecord(a, ok, written, q1, retry, fails, srx, stx, owed, panel) ==
    [ attempt |-> TRUE, ok |-> ok, written |-> written,
      requeued |-> Occurrences(q1, a.id) = 1 /\ Head(q1).id = a.id,
      dropped |-> ~ok /\ Occurrences(q1, a.id) = 0,
      id |-> a.id, retry |-> retry, fails |-> fails,
      since_rx |-> srx, since_tx |-> stx, owed |-> owed, panel |-> panel ]

\* h: failed attempts so far of the action at the head, after an attempt
FailsAfter(tx, fails) == IF tx.requeued THEN fails + 1 ELSE 0

MayRetry_Late(retry) == retry < MAX_COMMS_RETRY + 1

\* retryCount++ < MAX_COMMS_RETRY
MayRetry(retry) == retry < MAX_COMMS_RETRY

AfterFailedSend_ToBack(q, retry, a) ==
    IF MayRetry(retry)
    THEN [ q |-> Append(q, a), retry |-> retry + 1 ]
    ELSE [ q |-> q, retry |-> 0 ]

\* The queue and retry counter after the dequeued action `a` failed to send:
\* requeue at the front while the budget lasts, else drop and reset.
AfterFailedSend(q, retry, a) ==
    IF MayRetry(retry)
    THEN [ q |-> xQueueSendToFront(q, a), retry |-> retry + 1 ]
    ELSE [ q |-> q, retry |-> 0 ]

\* The queue and retry counter after pkt_q's head was dequeued and
\* process_PacketAction returned `ok`.
AfterAttempt(q, retry, ok) ==
    IF ok THEN [ q |-> Tail(q), retry |-> retry ]
    ELSE AfterFailedSend(Tail(q), retry, Head(q))

-----------------------------------------------------------------------------
(* Door status, shared by both protocols *)

\* The (current_state, target_state) pair a decoded door state maps to;
\* Unknown leaves the pair `old` as it is.
DoorPair(d, old) ==
    CASE d = "Open"    -> << "Open", "Open" >>
      [] d = "Closed"  -> << "Closed", "Closed" >>
      [] d = "Stopped" -> << "Stopped", "Open" >>
      [] d = "Opening" -> << "Opening", "Open" >>
      [] d = "Closing" -> << "Closing", "Closed" >>
      [] OTHER         -> old

ActivationTarget_Open(cur) == "Open"

\* The target back-filled when a status activates the door model
ActivationTarget(cur) ==
    IF cur = "Opening" \/ cur = "Open" THEN "Open" ELSE "Closed"

CancelsTTC_Never(cur, ttc) == FALSE

\* A status that shows the door Closing cancels a running time-to-close delay
CancelsTTC(cur, ttc) == cur = "Closing" /\ ttc > 0

-----------------------------------------------------------------------------
(* Protocol 2: dispatch of a received Status frame (PacketCommand::Status)  *)

StatusFrames ==
    [ cmd : {"Status"}, door : DoorStates, light : BOOLEAN, lock : BOOLEAN ]

\* Whether the Status handler announces the door: both notifications are sent
\* from one test on the pair.
DoorChanged2(cur, tgt, gd) ==
    tgt /= gd.target_state \/ cur /= gd.current_state

\* The door part of the Status handler: the new door model and the
\* notifications emitted.
StatusDoor2(gd, f) ==
    LET pair == DoorPair(f.door, << gd.current_state, gd.target_state >>)
        cur  == pair[1]
        tgt  == IF gd.active THEN pair[2] ELSE ActivationTarget(cur)
        chg  == DoorChanged2(cur, tgt, gd)
        gd1  == [gd EXCEPT !.active = TRUE,
                           !.current_state = IF chg THEN cur ELSE @,
                           !.target_state = IF chg THEN tgt ELSE @]
    IN  [ door  |-> gd1,
          notes |-> IF chg THEN Bump(Bump(NoNotes, "cur"), "tgt") ELSE NoNotes,
          cur   |-> cur ]

\* The light part of the Status handler
StatusLight2(st, f) ==
    IF f.light /= st.door.light
    THEN [st EXCEPT !.door.light = f.light, !.notes = Bump(@, "light")]
    ELSE st

\* The lock part of the Status handler
StatusLock2(st, f) ==
    LET cl == IF f.lock THEN "Locked" ELSE "Unlocked"
    IN  IF cl /= st.door.current_lock
        THEN [st EXCEPT !.door.current_lock = cl, !.door.target_lock = cl,
                        !.notes = Bump(Bump(@, "lockT"), "lockC")]
        ELSE st

ProcessStatus2(gd, f) == StatusLock2(StatusLight2(StatusDoor2(gd, f), f), f)

-----------------------------------------------------------------------------
(* Protocol 2: transmit, setup and the service tick *)

\* transmitSec2: a collision (bus still asserted after release) fails the send
\* and touches nothing; otherwise the frame is encoded with the current
\* counter and written, and a flagged action advances the counter.
TransmitSec2(rc, a, busAsserted) ==
    IF busAsserted THEN [ ok |-> FALSE, rc |-> rc ]
    ELSE [ ok |-> TRUE, rc |-> CodeAfterSend(rc, a) ]

GetStatusAction == PacketAction("GetStatus", "none", TRUE, 0, 0)

\* sync(): GetOpenings then GetStatus, both flagged, sent directly (not queued)
SyncCodes(rc, c1, c2) ==
    LET t1 == TransmitSec2(rc, GetStatusAction, c1)
        t2 == TransmitSec2(t1.rc, GetStatusAction, c2)
        used == (IF t1.ok THEN {rc} ELSE {}) \cup (IF t2.ok THEN {t1.rc} ELSE {})
    IN  [ rc |-> t2.rc, used |-> used ]

SetMin(S) == IF S = {} THEN None ELSE CHOOSE x \in S : \A y \in S : x <= y
SetMax(S) == IF S = {} THEN None ELSE CHOOSE x \in S : \A y \in S : x >= y

\* setup_comms for protocol 2, from the persisted counter nv: the bumped
\* counter is saved, sync() sends two frames, and a status request is queued
\* when the bus is idle (rxLow).
SetupComms2(nv, c1, c2, rxLow, id) ==
    LET rc0 == BumpedCode(nv)
        sy  == SyncCodes(rc0, c1, c2)
    IN  [ rolling_code |-> sy.rc,
          saved        |-> rc0,
          q            |-> IF rxLow THEN << [GetStatusAction EXCEPT !.id = id] >>
                           ELSE << >>,
          used         |-> sy.used ]

NoFrame == [ cmd |-> "none" ]

Sec1Unchanged ==
    UNCHANGED << doorState, prevDoor, gd_currentstate, gd_TargetState,
                 lightState, lockState, lastLightState, lastLockState,
                 reading_msg, rx_key, wallPanelDetected, wallplateBooting,
                 serialDetected, inWindow, emulateWallPanel, stateIndex,
                 since_request, cmdDelay, since_rx, since_tx, h_prev_sec1,
                 h_door_vals >>

RestartUnchanged == UNCHANGED << h_max_before, h_nv_before, h_restarts >>

MayTransmit2_Always(avail, q) == Len(q) > 0

\* The tick looks at the queue only when no received byte is waiting; it
\* consults no clock.
MayTransmit2(avail, q) == ~avail /\ Len(q) > 0

\* comms_loop_sec2, one service tick.  avail: a received byte is waiting;
\* f: the frame that byte completes (NoFrame when it completes none);
\* busAsserted: the bus is still asserted after release (collision);
\* mid: the actions another task sends to the back of the queue between
\* the tick's xQueueReceive and its xQueueSendToFront.
CommsLoopSec2With(avail, f, busAsserted, mid) ==
    /\ doorControlType = 2
    /\ mid /= << >> => MayTransmit2(avail, pkt_q)
    /\ LET txing == MayTransmit2(avail, pkt_q)
           a     == Head(pkt_q)
           isSt  == avail /\ f.cmd = "Status"
       IN
       \E t \in { IF txing THEN TransmitSec2(rolling_code, a, busAsserted)
                  ELSE [ ok |-> FALSE, rc |-> rolling_code ] } :
       \E r \in { IF ~txing THEN [ q |-> pkt_q, retry |-> retryCount ]
                  ELSE IF mid = << >> THEN AfterAttempt(pkt_q, retryCount, t.ok)
                  ELSE IF t.ok
                    THEN [ q |-> SendAllToBack(Tail(pkt_q), mid, h_next_id),
                           retry |-> retryCount ]
                  ELSE AfterFailedSend(SendAllToBack(Tail(pkt_q), mid, h_next_id),
                                       retryCount, a) } :
       \E st \in { IF isSt THEN ProcessStatus2(garage_door, f)
                   ELSE [ door |-> garage_door, notes |-> NoNotes,
                          cur |-> garage_door.current_state ] } :
       \E stop \in { isSt /\ CancelsTTC(st.cur, TTCcountdown) } :
       \E save \in { NeedsSave(t.rc, last_saved_code) } :
       \E tx \in { IF txing
                   THEN TxRecord(a, t.ok, t.ok, r.q, retryCount, h_fails,
                                 IF avail THEN 0 ELSE h_rx_age, h_tx_age,
                                 h_tx_delay, FALSE)
                   ELSE NoTx } :
           /\ pkt_q' = r.q
           /\ retryCount' = r.retry
           /\ rolling_code' = t.rc
           /\ last_saved_code' = IF save THEN t.rc ELSE last_saved_code
           /\ nvram_rolling' = IF save THEN t.rc ELSE nvram_rolling
           /\ garage_door' = st.door
           /\ TTCcountdown' = IF stop THEN 0 ELSE TTCcountdown
           /\ TTCtimerAttached' = IF stop THEN FALSE ELSE TTCtimerAttached
           /\ notified' = st.notes
           /\ h_did' = [NoDid EXCEPT
                          !.decoded = IF isSt THEN f.door ELSE "none",
                          !.val = IF isSt THEN (IF f.lock THEN 1 ELSE 0) ELSE None,
                          !.countdown = TTCcountdown,
                          !.attached = TTCtimerAttached]
           /\ h_ttc' = IF stop THEN [h_ttc EXCEPT !.cancelled = TRUE] ELSE h_ttc
           /\ h_event' = IF isSt THEN "Status" ELSE IF avail THEN "Byte" ELSE "Tx"
           /\ h_prev_door' = garage_door
           /\ h_tx' = tx
           /\ h_fails' = IF txing THEN FailsAfter(tx, h_fails) ELSE h_fails
           /\ h_prev_q' = pkt_q
           /\ h_sent' = IF txing /\ t.ok THEN Append(h_sent, a.id) ELSE h_sent
           /\ h_tx_age' = IF txing /\ t.ok THEN 0 ELSE h_tx_age
           /\ h_tx_delay' = IF txing /\ t.ok THEN a.delay ELSE h_tx_delay
           /\ h_rx_age' = IF avail THEN 0 ELSE h_rx_age
           /\ h_min_since' = IF txing /\ t.ok THEN MinUsed(h_min_since, rolling_code)
                             ELSE h_min_since
           /\ h_max_since' = IF txing /\ t.ok THEN Max(h_max_since, rolling_code)
                             ELSE h_max_since
    /\ h_next_id' = h_next_id + Len(mid)
    /\ h_rejected' = IF mid = << >> THEN h_rejected
                     ELSE h_rejected \cup RejectedIds(Tail(pkt_q), Len(mid), h_next_id)
    /\ UNCHANGED << doorControlType, TTCwasLightOn, TTC_Action >>
    /\ Sec1Unchanged
    /\ RestartUnchanged
    /\ SettingsUnchanged
    /\ ObstructionUnchanged
    /\ RecoveryUnchanged

\* The tick with no other task touching the queue meanwhile
CommsLoopSec2(avail, f, busAsserted) ==
    CommsLoopSec2With(avail, f, busAsserted, << >>)

-----------------------------------------------------------------------------
(* Command entry points.  Each enqueues with a zero timeout and carries on  *)
(* when the queue is full.                                                  *)

\* The PacketActions door_command(action) sends to the back of the queue:
\* press (counter not advanced, 250 ms), release (40 ms), then a second
\* release in protocol 1 or send_get_status() in protocol 2.
DoorCommandActions(type, action) ==
    << PacketAction("DoorPress", action, FALSE, 250, 0),
       PacketAction("DoorRelease", action, TRUE, 40, 0),
       IF type = 1 THEN PacketAction("DoorRelease", action, TRUE, 40, 0)
       ELSE GetStatusAction >>

\* What every entry point does with the actions `as` it enqueues
Enqueue(as) ==
    /\ pkt_q' = SendAllToBack(pkt_q, as, h_next_id)
    /\ h_next_id' = h_next_id + Len(as)
    /\ h_rejected' = h_rejected \cup RejectedIds(pkt_q, Len(as), h_next_id)
    /\ notified' = NoNotes
    /\ h_event' = "Cmd"
    /\ h_prev_door' = garage_door
    /\ h_tx' = NoTx
    /\ h_prev_q' = pkt_q
    /\ UNCHANGED << doorControlType, retryCount,
                    rolling_code, last_saved_code, nvram_rolling, h_sent, h_fails,
                    h_tx_age, h_tx_delay, h_rx_age, h_min_since, h_max_since >>
    /\ Sec1Unchanged
    /\ RestartUnchanged
    /\ SettingsUnchanged
    /\ ObstructionUnchanged
    /\ RecoveryUnchanged

door_command(action) ==
    /\ Enqueue(DoorCommandActions(doorControlType, action))
    /\ h_did' = [NoDid EXCEPT !.door = << action >>]
    /\ UNCHANGED << garage_door, TTCcountdown, TTCtimerAttached >>
    /\ CountdownUnchanged

send_get_status ==
    /\ doorControlType = 2
    /\ Enqueue(<< GetStatusAction >>)
    /\ h_did' = NoDid
    /\ UNCHANGED << garage_door, TTCcountdown, TTCtimerAttached >>
    /\ CountdownUnchanged

-----------------------------------------------------------------------------
(* Time and restarts *)

\* Times since an event saturate just above the longest delay compared with
MaxDelay == 250
AgeCap == MaxDelay + 1
\* ... and the time since the last request just above the 1000 ms log period
LogPeriod == 1000
RequestCap == LogPeriod + 1

\* d milliseconds pass between two handlers.  Once a wall panel is detected
\* wallPlate_Emulation returns before it reads lastRequestMillis, so the time
\* since the last request is no longer tracked.
Elapse(d) ==
    /\ since_rx' = Min(since_rx + d, AgeCap)
    /\ since_tx' = Min(since_tx + d, AgeCap)
    /\ h_rx_age' = Min(h_rx_age + d, AgeCap)
    /\ h_tx_age' = Min(h_tx_age + d, AgeCap)
    /\ notified' = NoNotes
    /\ h_event' = "Elapse"
    /\ h_prev_door' = garage_door
    /\ h_tx' = NoTx
    /\ since_request' = IF wallPanelDetected THEN since_request
                        ELSE Min(since_request + d, RequestCap)
    /\ UNCHANGED << doorControlType, garage_door, TTCcountdown, TTCtimerAttached,
                    pkt_q, retryCount, rolling_code, last_saved_code,
                    nvram_rolling, doorState, prevDoor, gd_currentstate,
                    gd_TargetState, lightState, lockState, lastLightState,
                    lastLockState, reading_msg, rx_key, wallPanelDetected,
                    wallplateBooting, serialDetected, inWindow,
                    emulateWallPanel, stateIndex, cmdDelay, h_prev_sec1,
                    h_door_vals,
                    h_next_id, h_rejected, h_sent, h_fails, h_tx_delay,
                    h_min_since, h_max_since >>
    /\ h_prev_q' = pkt_q
    /\ h_did' = NoDid
    /\ RestartUnchanged
    /\ SettingsUnchanged
    /\ ObstructionUnchanged
    /\ RecoveryUnchanged
    /\ CountdownUnchanged

\* The device restarts and setup_comms runs again (protocol 2).  clean: the
\* restart goes through sync_and_restart, which saves the counter first; a
\* crash or power loss does not.
Restart(clean, c1, c2, rxLow) ==
    /\ doorControlType = 2
    /\ h_restarts < MaxRestarts
    /\ LET nv == IF clean THEN rolling_code ELSE nvram_rolling
           su == SetupComms2(nv, c1, c2, rxLow, h_next_id)
       IN  /\ rolling_code' = su.rolling_code
           /\ last_saved_code' = su.saved
           /\ nvram_rolling' = su.saved
           /\ pkt_q' = su.q
           /\ h_next_id' = h_next_id + Len(su.q)
           /\ h_min_since' = SetMin(su.used)
           /\ h_max_since' = SetMax(su.used)
           /\ h_max_before' = Max(h_max_before, h_max_since)
           /\ h_nv_before' = nv
           /\ h_tx_age' = IF su.used = {} THEN AgeCap ELSE 0
    /\ h_restarts' = h_restarts + 1
    /\ retryCount' = 0
    /\ garage_door' = GarageDoorInit
    /\ TTCcountdown' = 0
    /\ TTCtimerAttached' = FALSE
    /\ TTCwasLightOn' = FALSE
    /\ TTC_Action' = "none"
    /\ force_recover' = [ push_count |-> 0, since_armed |-> 0 ]
    /\ obstruction_sensor' = [ low_count |-> 0, since_asleep |-> 0 ]
    /\ since_check' = 0
    /\ h_did' = NoDid
    /\ UNCHANGED << h_ttc, h_seq >>
    /\ SettingsUnchanged
    /\ notified' = NoNotes
    /\ h_event' = "Restart"
    /\ h_prev_door' = garage_door
    /\ h_tx' = NoTx
    /\ h_fails' = 0
    /\ h_prev_q' = pkt_q
    /\ h_tx_delay' = 0
    /\ h_rx_age' = AgeCap
    /\ UNCHANGED << doorControlType, h_rejected, h_sent >>
    /\ Sec1Unchanged

-----------------------------------------------------------------------------
(* Protocol 1: the byte reader and the status decoders *)

DoorButtonPress == 48
DoorButtonRelease == 49
LightButtonPress == 50
LightButtonRelease == 51
LockButtonPress == 52
LockButtonRelease == 53
DoorStatus == 56
ObstructionStatus == 57
LightLockStatus == 58

UpperNibble(v) == (v \div 16) * 16
BitRead(v, n) == (v \div (2 ^ n)) % 2

\* A half-read message is given up when more than this many ms have passed
\* since last_rx
RxTimeout == 100
RX_LENGTH == 2

\* What one received byte does to the reader: a byte 0x30..0x37 is a whole
\* message, a byte 0x38..0x3A opens a two-byte message, the byte after it
\* is stored as its second byte.  The timeout is tested in the branch that
\* has just stored that byte, with last_rx already set to millis() for it:
\* count is byte_count after the store, sinceRx is millis() - last_rx there.
ReadByte(reading, key, b) ==
    IF ~reading
    THEN IF b >= DoorButtonPress /\ b <= 55
           THEN [ reading |-> FALSE, key |-> b, got |-> TRUE, val |-> 0 ]
         ELSE IF b >= DoorStatus /\ b <= LightLockStatus
           THEN [ reading |-> TRUE, key |-> b, got |-> FALSE, val |-> 0 ]
         ELSE [ reading |-> FALSE, key |-> key, got |-> FALSE, val |-> 0 ]
    ELSE LET count    == 1 + 1
             sinceRx  == 0
             got      == count = RX_LENGTH
             timedOut == ~got /\ sinceRx > RxTimeout
         IN  [ reading |-> ~got /\ ~timedOut, key |-> key, got |-> got,
               val |-> b ]

\* The upper nibble of a door status value must be 0x0, 0x5 or 0xB
DoorNibbleOk_Any(val) == TRUE

DoorNibbleOk(val) == UpperNibble(val) \in {0, 80, 176}

\* The low three bits of a door status value
DecodeDoor1(v) ==
    CASE v = 0 -> "Stopped"
      [] v = 1 -> "Opening"
      [] v = 2 -> "Open"
      [] v = 4 -> "Closing"
      [] v = 5 -> "Closed"
      [] v = 6 -> "Stopped"
      [] OTHER -> "Unknown"

\* Two sequential matching door values are required: the value is taken
\* when it equals the one remembered in the static prevDoor.
Debounced(prev, v) == prev = v

DoorPair1_StoppedClosed(ds, old) ==
    IF ds = "Stopped" THEN << "Stopped", "Closed" >> ELSE DoorPair(ds, old)

\* switch (doorState) of the protocol-1 door status: the (current_state,
\* target_state) pair written to garage_door; Unknown writes nothing.
DoorPair1(ds, old) ==
    CASE ds = "Open"    -> << "Open", "Open" >>
      [] ds = "Closed"  -> << "Closed", "Closed" >>
      [] ds = "Stopped" -> << "Stopped", "Open" >>
      [] ds = "Opening" -> << "Opening", "Open" >>
      [] ds = "Closing" -> << "Closing", "Closed" >>
      [] OTHER          -> old

\* A committed door value: doorState, the door model, the time-to-close
\* cancellation, activation and the two edge-triggered notifications.
CommitDoor1(d, gd, v, ttc) ==
    LET ds   == DecodeDoor1(v)
        pair == DoorPair1(ds, << gd.current_state, gd.target_state >>)
        cur  == pair[1]
        tgt  == IF gd.active THEN pair[2] ELSE ActivationTarget(cur)
        nCur == cur /= d.gd_currentstate
        nTgt == tgt /= d.gd_TargetState
        n1   == IF nCur THEN Bump(NoNotes, "cur") ELSE NoNotes
    IN  [ d     |-> [d EXCEPT !.doorState = ds,
                              !.gd_currentstate = cur,
                              !.gd_TargetState = tgt],
          door  |-> [gd EXCEPT !.active = TRUE, !.current_state = cur,
                               !.target_state = tgt],
          notes |-> IF nTgt THEN Bump(n1, "tgt") ELSE n1,
          stop  |-> CancelsTTC(cur, ttc) ]

\* case secplus1Codes::DoorStatus
DoorStatus1(d, gd, val, ttc) ==
    LET same == [ d |-> d, door |-> gd, notes |-> NoNotes, stop |-> FALSE ]
        v    == val % 8
    IN  IF ~DoorNibbleOk(val) THEN same
        ELSE IF ~Debounced(d.prevDoor, v)
          THEN [same EXCEPT !.d = [d EXCEPT !.prevDoor = v]]
        ELSE CommitDoor1(d, gd, v, ttc)

LightLockStatus1_EveryPoll(d, gd, val) ==
    [ d |-> d, door |-> gd, notes |-> Bump(NoNotes, "light"), stop |-> FALSE ]

\* case secplus1Codes::LightLockStatus: upper nibble 5, bit 2 the light,
\* bit 3 inverted the lock; each announced when it differs from the last
\* value announced.
LightLockStatus1(d, gd, val) ==
    LET light == BitRead(val, 2)
        lock  == 1 - BitRead(val, 3)
        nL    == light /= d.lastLightState
        nK    == lock /= d.lastLockState
        lk    == IF lock = 1 THEN "Locked" ELSE "Unlocked"
        mL    == nL /\ "lightKey" \in motionTriggers
        mK    == nK /\ "lockKey" \in motionTriggers
        n1    == IF nL THEN Bump(NoNotes, "light") ELSE NoNotes
        n2    == IF mL THEN Bump(n1, "motion") ELSE n1
        n3    == IF nK THEN Bump(Bump(n2, "lockT"), "lockC") ELSE n2
    IN  IF UpperNibble(val) /= 80
        THEN [ d |-> d, door |-> gd, notes |-> NoNotes, stop |-> FALSE ]
        ELSE [ d     |-> [d EXCEPT !.lightState = light, !.lockState = lock,
                                   !.lastLightState = light,
                                   !.lastLockState = lock],
               door  |-> [gd EXCEPT
                            !.light = IF nL THEN light = 1 ELSE @,
                            !.current_lock = IF nK THEN lk ELSE @,
                            !.target_lock = IF nK THEN lk ELSE @,
                            !.motion = IF mL \/ mK THEN TRUE ELSE @],
               notes |-> IF mK THEN Bump(n3, "motion") ELSE n3,
               stop  |-> FALSE ]

\* key == secplus1Codes::DoorButtonPress: the motion sensor is triggered
\* when the door key is a motion trigger
DoorButtonPress1(d, gd) ==
    IF "doorKey" \in motionTriggers
    THEN [ d |-> d, door |-> [gd EXCEPT !.motion = TRUE],
           notes |-> Bump(NoNotes, "motion"), stop |-> FALSE ]
    ELSE [ d |-> d, door |-> gd, notes |-> NoNotes, stop |-> FALSE ]

\* Dispatch of a complete message (key, val)
Message1(d, gd, key, val, ttc) ==
    CASE key = DoorStatus      -> DoorStatus1(d, gd, val, ttc)
      [] key = LightLockStatus -> LightLockStatus1(d, gd, val)
      [] key = DoorButtonPress -> DoorButtonPress1(d, gd)
      [] OTHER -> [ d |-> d, door |-> gd, notes |-> NoNotes, stop |-> FALSE ]

-----------------------------------------------------------------------------
(* Manual recovery: presses of the wall panel's door and light buttons *)

\* The presses are counted for this long after the first (ms); the time
\* since the count was armed saturates just above it
RecoveryWindow == 3000
RecoveryCap == RecoveryWindow + 1
RecoveryPresses == 5
force_recover_delay == 3

\* uint8_t arithmetic (push_count, TTCcountdown)
Uint8(n) == n % 256

\* manual_recovery on force_recover: the press is counted; the first arms
\* the timeout, a later one that finds it expired zeroes the count; recovery
\* is requested whenever the count then stands at RecoveryPresses or more.
manual_recovery(fr) ==
    LET first   == fr.push_count = 0
        expired == ~first /\ fr.since_armed > RecoveryWindow
        count   == IF expired THEN 0 ELSE Uint8(fr.push_count + 1)
    IN  [ fr      |-> [ push_count |-> count,
                        since_armed |-> IF first THEN 0 ELSE fr.since_armed ],
          request |-> count >= RecoveryPresses ]

\* h: the press sequence after one more press
SequenceAfterPress(sq, request) ==
    LET fresh == sq.presses = 0 \/ sq.age > RecoveryWindow
        r     == IF request THEN 1 ELSE 0
    IN  IF fresh
        THEN [ presses |-> 1, age |-> 0, requests |-> r, total |-> sq.total + 1 ]
        ELSE [sq EXCEPT !.presses = @ + 1, !.requests = @ + r, !.total = @ + 1]

\* h: the name under which h_event records a dispatched message
MessageEvent(key, val) ==
    CASE key = DoorStatus ->
           IF DoorNibbleOk(val) THEN "DoorStatus" ELSE "DoorStatusRejected"
      [] key = LightLockStatus ->
           IF UpperNibble(val) = 80 THEN "LightLock" ELSE "LightLockRejected"
      [] OTHER -> "Message"

Sec1Decoder ==
    [ doorState |-> doorState, prevDoor |-> prevDoor,
      gd_currentstate |-> gd_currentstate, gd_TargetState |-> gd_TargetState,
      lightState |-> lightState, lockState |-> lockState,
      lastLightState |-> lastLightState, lastLockState |-> lastLockState ]

-----------------------------------------------------------------------------
(* Protocol 1: the scheduler, transmit and wall-panel emulation *)

RxTxGap == 20
PanelWindow == 200
PollPeriod == 250

OkToSend_PanelAlways(panel, srx, stx, delay) ==
    srx > RxTxGap /\ srx < PanelWindow /\ stx > RxTxGap /\ stx > delay

OkToSend_NoDelay(panel, srx, stx, delay) ==
    IF ~panel
    THEN srx > RxTxGap /\ stx > RxTxGap
    ELSE srx > RxTxGap /\ srx < PanelWindow /\ stx > RxTxGap

\* okToSend of comms_loop_sec1, from the times since the last received and
\* the last transmitted byte and the delay owed after the last send
OkToSend(panel, srx, stx, delay) ==
    IF ~panel
    THEN srx > RxTxGap /\ stx > RxTxGap /\ stx > delay
    ELSE srx > RxTxGap /\ srx < PanelWindow /\ stx > RxTxGap /\ stx > delay

\* The byte process_PacketAction hands to transmitSec1 for a queued action;
\* 0 when it hands none (a poll carrying 0, or a data type it does not know).
ByteOf(a) ==
    CASE a.kind = "Poll"         -> a.arg
      [] a.kind = "DoorPress"    -> DoorButtonPress
      [] a.kind = "DoorRelease"  -> DoorButtonRelease
      [] a.kind = "LightPress"   -> LightButtonPress
      [] a.kind = "LightRelease" -> LightButtonRelease
      [] a.kind = "LockPress"    -> LockButtonPress
      [] a.kind = "LockRelease"  -> LockButtonRelease
      [] OTHER                   -> 0

\* transmitSec1: nothing is written while the bus is busy (RX pin high or a
\* received byte waiting)
TransmitSec1(toSend, busy) == toSend /= 0 /\ ~busy

secplus1States == << 53, 53, 51, 51, 56, 58, 57 >>

\* stateIndex++, wrapping to the first entry
NextStateIndex_ToStart(i) ==
    IF i + 1 = Len(secplus1States) THEN 0 ELSE i + 1

\* stateIndex++, wrapping to the last three entries
NextStateIndex(i) ==
    IF i + 1 = Len(secplus1States) THEN Len(secplus1States) - 3 ELSE i + 1

PollAction(byte, id) == PacketAction("Poll", byte, TRUE, 20, id)

\* wallPlate_Emulation.  e holds the variables it reads and writes; more: a
\* received byte is waiting; ds, ls: doorState and lightState.
WallPlateEmulation(e, more, ds, ls, id) ==
    IF e.wpd THEN e
    ELSE IF ~e.serialDetected
      THEN IF more THEN [e EXCEPT !.serialDetected = TRUE, !.inWindow = TRUE]
           ELSE e
    ELSE IF e.inWindow \/ e.booting
      THEN LET e1 == IF e.since_request > LogPeriod
                     THEN [e EXCEPT !.since_request = 0] ELSE e
           IN  IF ds /= "Unknown" \/ ls /= 2
               THEN [e1 EXCEPT !.wpd = TRUE, !.booting = FALSE]
               ELSE e1
    ELSE IF e.since_request > PollPeriod
      THEN [e EXCEPT !.emulate = TRUE,
                     !.since_request = 0,
                     !.q = xQueueSendToBack(@,
                              PollAction(secplus1States[e.stateIndex + 1], id)),
                     !.stateIndex = NextStateIndex(@),
                     !.polled = TRUE]
    ELSE [e EXCEPT !.emulate = TRUE]

\* comms_loop_sec1, one service tick.  b: the byte read (None when no byte
\* is waiting); busy: the bus is busy when transmitSec1 looks; more: a byte
\* is waiting when wallPlate_Emulation looks.
CommsLoopSec1(b, busy, more) ==
    /\ doorControlType = 1
    /\ LET hasByte == b /= None
           srx     == IF hasByte THEN 0 ELSE since_rx
           try     == Len(pkt_q) > 0
                      /\ OkToSend(wallPanelDetected, srx, since_tx, cmdDelay)
           a       == Head(pkt_q)
           ok      == try /\ TransmitSec1(ByteOf(a), busy)
       IN
       \E rd \in { IF hasByte THEN ReadByte(reading_msg, rx_key, b)
                   ELSE [ reading |-> reading_msg, key |-> rx_key,
                          got |-> FALSE, val |-> 0 ] } :
       \E m \in { IF rd.got
                  THEN Message1(Sec1Decoder, garage_door, rd.key, rd.val,
                                TTCcountdown)
                  ELSE [ d |-> Sec1Decoder, door |-> garage_door,
                         notes |-> NoNotes, stop |-> FALSE ] } :
       \E press \in { rd.got /\ rd.key \in {DoorButtonPress, LightButtonPress} } :
       \E mr \in { IF press THEN manual_recovery(force_recover)
                   ELSE [ fr |-> force_recover, request |-> FALSE ] } :
       \E r \in { IF try THEN AfterAttempt(pkt_q, retryCount, ok)
                  ELSE [ q |-> pkt_q, retry |-> retryCount ] } :
       \E e \in { WallPlateEmulation(
                     [ wpd |-> wallPanelDetected,
                       booting |-> IF rd.got /\ rd.key = DoorButtonRelease
                                      /\ doorState = "Unknown"
                                   THEN TRUE ELSE wallplateBooting,
                       serialDetected |-> serialDetected, inWindow |-> inWindow,
                       emulate |-> emulateWallPanel, stateIndex |-> stateIndex,
                       since_request |-> since_request, q |-> r.q,
                       polled |-> FALSE ],
                     more, m.d.doorState, m.d.lightState, h_next_id) } :
       \E tx \in { IF try
                   THEN TxRecord(a, ok, ok, r.q, retryCount, h_fails,
                                 IF hasByte THEN 0 ELSE h_rx_age, h_tx_age,
                                 h_tx_delay, wallPanelDetected)
                   ELSE NoTx } :
           /\ e.polled => h_next_id < MaxEnq
           /\ reading_msg' = rd.reading
           /\ rx_key' = rd.key
           /\ since_rx' = srx
           /\ doorState' = m.d.doorState
           /\ prevDoor' = m.d.prevDoor
           /\ gd_currentstate' = m.d.gd_currentstate
           /\ gd_TargetState' = m.d.gd_TargetState
           /\ lightState' = m.d.lightState
           /\ lockState' = m.d.lockState
           /\ lastLightState' = m.d.lastLightState
           /\ lastLockState' = m.d.lastLockState
           /\ garage_door' = m.door
           /\ TTCcountdown' = IF mr.request THEN force_recover_delay * 2
                              ELSE IF m.stop THEN 0 ELSE TTCcountdown
           /\ TTCtimerAttached' = IF mr.request THEN TRUE
                                  ELSE IF m.stop THEN FALSE ELSE TTCtimerAttached
           /\ TTCwasLightOn' = IF mr.request THEN garage_door.light
                               ELSE TTCwasLightOn
           /\ TTC_Action' = IF mr.request THEN "restart" ELSE TTC_Action
           /\ softAPmode' = (softAPmode \/ mr.request)
           /\ force_recover' = mr.fr
           /\ h_seq' = IF press THEN SequenceAfterPress(h_seq, mr.request)
                       ELSE h_seq
           /\ notified' = m.notes
           /\ retryCount' = r.retry
           /\ cmdDelay' = IF try THEN (IF ok THEN a.delay ELSE 0) ELSE cmdDelay
           /\ since_tx' = IF ok THEN 0 ELSE since_tx
           /\ pkt_q' = e.q
           /\ wallPanelDetected' = e.wpd
           /\ wallplateBooting' = e.booting
           /\ serialDetected' = e.serialDetected
           /\ inWindow' = e.inWindow
           /\ emulateWallPanel' = e.emulate
           /\ stateIndex' = e.stateIndex
           /\ since_request' = e.since_request
           /\ h_next_id' = IF e.polled THEN h_next_id + 1 ELSE h_next_id
           /\ h_rejected' = IF e.polled
                            THEN h_rejected \cup RejectedIds(r.q, 1, h_next_id)
                            ELSE h_rejected
           /\ h_event' = IF rd.got THEN MessageEvent(rd.key, rd.val)
                         ELSE IF hasByte THEN "Byte" ELSE "Tx"
           /\ h_prev_door' = garage_door
           /\ h_prev_sec1' = Sec1Decoder
           /\ h_door_vals' = IF rd.got /\ rd.key = DoorStatus /\ DoorNibbleOk(rd.val)
                             THEN << h_door_vals[2], rd.val % 8 >>
                             ELSE h_door_vals
           /\ h_tx' = tx
           /\ h_fails' = IF try THEN FailsAfter(tx, h_fails) ELSE h_fails
           /\ h_prev_q' = pkt_q
           /\ h_sent' = IF ok THEN Append(h_sent, a.id) ELSE h_sent
           /\ h_tx_age' = IF ok THEN 0 ELSE h_tx_age
           /\ h_tx_delay' = IF ok THEN a.delay ELSE h_tx_delay
           /\ h_rx_age' = IF hasByte THEN 0 ELSE h_rx_age
           /\ h_did' =
                [NoDid EXCEPT
                   !.call = IF press THEN "press" ELSE "none",
                   !.recovery = mr.request,
                   !.late = hasByte /\ reading_msg /\ since_rx > RxTimeout,
                   !.asValue = hasByte /\ reading_msg /\ rd.got,
                   !.key = IF rd.got THEN rd.key ELSE None,
                   !.val = IF rd.got THEN rd.val ELSE None,
                   !.countdown = TTCcountdown,
                   !.attached = TTCtimerAttached,
                   !.decoded = IF rd.got /\ rd.key = DoorStatus
                                  /\ DoorNibbleOk(rd.val)
                                  /\ Debounced(prevDoor, rd.val % 8)
                               THEN DecodeDoor1(rd.val % 8) ELSE "none"]
           /\ h_ttc' = IF mr.request
                       THEN [NoCountdown EXCEPT !.seed = force_recover_delay,
                                                !.requests = h_ttc.requests]
                       ELSE IF m.stop THEN [h_ttc EXCEPT !.cancelled = TRUE]
                       ELSE h_ttc
    /\ UNCHANGED << doorControlType, rolling_code, last_saved_code,
                    nvram_rolling, h_min_since, h_max_since, TTCseconds,
                    motionTriggers >>
    /\ RestartUnchanged
    /\ ObstructionUnchanged

\* 15 s have passed since bus traffic was first seen
WindowElapses ==
    /\ doorControlType = 1
    /\ serialDetected
    /\ inWindow
    /\ inWindow' = FALSE
    /\ notified' = NoNotes
    /\ h_event' = "Elapse"
    /\ h_prev_door' = garage_door
    /\ h_tx' = NoTx
    /\ UNCHANGED << doorControlType, garage_door, TTCcountdown, TTCtimerAttached,
                    pkt_q, retryCount, rolling_code, last_saved_code,
                    nvram_rolling, doorState, prevDoor, gd_currentstate,
                    gd_TargetState, lightState, lockState, lastLightState,
                    lastLockState, reading_msg, rx_key, wallPanelDetected,
                    wallplateBooting, serialDetected, emulateWallPanel,
                    stateIndex, since_request, cmdDelay, since_rx, since_tx,
                    h_prev_sec1, h_door_vals, h_next_id, h_rejected,
                    h_sent, h_fails, h_tx_age,
                    h_tx_delay, h_rx_age, h_min_since, h_max_since >>
    /\ h_prev_q' = pkt_q
    /\ h_did' = NoDid
    /\ RestartUnchanged
    /\ SettingsUnchanged
    /\ ObstructionUnchanged
    /\ RecoveryUnchanged
    /\ CountdownUnchanged

-----------------------------------------------------------------------------
(* The time-to-close delay: close_door, open_door, set_light and the 500 ms *)
(* ticks of TTCdelayLoop                                                    *)

\* The PacketActions set_light(value) sends to the back of the queue.
\* Protocol 1 toggles, so nothing is sent when the door model already shows
\* the light at value; otherwise press (250 ms) and two releases (40 ms).
\* Protocol 2 sends the Light frame and then send_get_status().
SetLightActions(type, light, value) ==
    IF type = 1
    THEN IF value = light THEN << >>
         ELSE << PacketAction("LightPress", value, TRUE, 250, 0),
                 PacketAction("LightRelease", value, TRUE, 40, 0),
                 PacketAction("LightRelease", value, TRUE, 40, 0) >>
    ELSE << PacketAction("Light", value, TRUE, 0, 0), GetStatusAction >>

\* Which way close_door goes: the safety tests on the door come first, then
\* the delay setting, then whether a countdown is running.
CloseBranch(cur, seconds, countdown) ==
    CASE cur = "Closed"  -> "return"
      [] cur = "Opening" -> "stop"
      [] seconds = 0     -> "close"
      [] countdown > 0   -> "cancel"
      [] OTHER           -> "start"

close_door ==
    \E br \in { CloseBranch(garage_door.current_state, TTCseconds,
                            TTCcountdown) } :
    \E cmd \in { CASE br = "stop" -> << "Stop" >>
                    [] br \in {"close", "cancel"} -> << "Close" >>
                    [] OTHER -> << >> } :
        /\ Enqueue(IF cmd = << >> THEN << >>
                   ELSE DoorCommandActions(doorControlType, cmd[1]))
        /\ TTCcountdown' = CASE br = "cancel" -> 0
                             [] br = "start"  -> Uint8(TTCseconds * 2)
                             [] OTHER         -> TTCcountdown
        /\ TTCtimerAttached' = CASE br = "cancel" -> FALSE
                                 [] br = "start"  -> TRUE
                                 [] OTHER         -> TTCtimerAttached
        /\ TTCwasLightOn' = IF br = "start" THEN garage_door.light
                            ELSE TTCwasLightOn
        /\ TTC_Action' = IF br = "start" THEN "close" ELSE TTC_Action
        /\ h_did' = [NoDid EXCEPT !.call = "close", !.door = cmd,
                                  !.countdown = TTCcountdown,
                                  !.attached = TTCtimerAttached]
        /\ h_ttc' = IF br = "start"
                    THEN [NoCountdown EXCEPT !.seed = TTCseconds,
                                             !.requests = h_ttc.requests + 1]
                    ELSE [h_ttc EXCEPT !.requests = @ + 1,
                                       !.cancelled = @ \/ br = "cancel"]
        /\ UNCHANGED garage_door

\* open_door sending Open whatever the door is doing
OpenBranch_Always(cur) == << "Open" >>

\* Which way open_door goes once a running countdown has been stopped
OpenBranch(cur) ==
    CASE cur = "Open"    -> << >>
      [] cur = "Closing" -> << "Stop" >>
      [] OTHER           -> << "Open" >>

open_door ==
    \E stop \in { TTCcountdown > 0 } :
    \E cmd \in { OpenBranch(garage_door.current_state) } :
    \E light \in { IF stop
                    THEN SetLightActions(doorControlType, garage_door.light,
                                         TTCwasLightOn)
                    ELSE << >> } :
        /\ Enqueue(light \o (IF cmd = << >> THEN << >>
                              ELSE DoorCommandActions(doorControlType, cmd[1])))
        /\ TTCcountdown' = IF stop THEN 0 ELSE TTCcountdown
        /\ TTCtimerAttached' = IF stop THEN FALSE ELSE TTCtimerAttached
        /\ h_did' = [NoDid EXCEPT
                       !.call = "open", !.door = cmd,
                       !.set_light = IF stop THEN << TTCwasLightOn >> ELSE << >>,
                       !.countdown = TTCcountdown,
                       !.attached = TTCtimerAttached]
        /\ h_ttc' = [h_ttc EXCEPT !.requests = @ + 1, !.cancelled = @ \/ stop]
        /\ UNCHANGED << garage_door, TTCwasLightOn, TTC_Action >>

\* The PacketActions set_lock(value) sends to the back of the queue.
\* Protocol 1 toggles, so nothing is sent when the lock already stands at
\* value; otherwise press (3000 ms) and two releases (40 ms).  Protocol 2
\* sends the Lock frame and then send_get_status().
SetLockActions(type, current_lock, value) ==
    IF type = 1
    THEN IF current_lock = (IF value THEN "Locked" ELSE "Unlocked") THEN << >>
         ELSE << PacketAction("LockPress", value, TRUE, 3000, 0),
                 PacketAction("LockRelease", value, TRUE, 40, 0),
                 PacketAction("LockRelease", value, TRUE, 40, 0) >>
    ELSE << PacketAction("Lock", value, TRUE, 0, 0), GetStatusAction >>

\* set_lock(value): the target lock of the door model is written first,
\* then the command is queued.
set_lock(value) ==
    /\ Enqueue(SetLockActions(doorControlType, garage_door.current_lock, value))
    /\ garage_door' = [garage_door EXCEPT
                         !.target_lock = IF value THEN "Locked" ELSE "Unlocked"]
    /\ h_did' = [NoDid EXCEPT !.call = "lock",
                              !.countdown = TTCcountdown,
                              !.attached = TTCtimerAttached]
    /\ h_ttc' = [h_ttc EXCEPT !.requests = @ + 1]
    /\ UNCHANGED << TTCcountdown, TTCtimerAttached, TTCwasLightOn, TTC_Action >>

\* set_light(value) as an entry point of its own
set_light(value) ==
    /\ Enqueue(SetLightActions(doorControlType, garage_door.light, value))
    /\ h_did' = [NoDid EXCEPT !.call = "light", !.set_light = << value >>,
                              !.countdown = TTCcountdown,
                              !.attached = TTCtimerAttached]
    /\ h_ttc' = [h_ttc EXCEPT !.requests = @ + 1]
    /\ UNCHANGED << garage_door, TTCcountdown, TTCtimerAttached, TTCwasLightOn,
                    TTC_Action >>

\* The task a handler runs in.  The service tick (comms_loop and what it
\* calls) runs in the Arduino loop task; the smart-home bridge polls in a
\* task of its own (homeSpan.autoPoll) and calls the entry points from
\* there; TTCdelayLoop is the callback of the Ticker TTCtimer.
ContextOf(call) ==
    CASE call \in {"open", "close", "lock", "light"} -> "bridge"
      [] call = "tick" -> "timer"
      [] OTHER -> "loop"

\* TTCdelayLoop, one 500 ms tick; count: the value --TTCcountdown reads.
\* --TTCcountdown on a uint8_t, then the light toggle while it is above 0,
\* the end action otherwise.  The tick whose end action is sync_and_restart
\* is RecoveryRestart.
TTCtick(count) ==
    /\ TTC_Action /= "restart" \/ Uint8(count + 255) > 0
    /\ \E c \in { Uint8(count + 255) } :
       \E end \in { IF c > 0 THEN "none" ELSE TTC_Action } :
          /\ Enqueue(IF c > 0
                     THEN SetLightActions(doorControlType, garage_door.light,
                                          ~garage_door.light)
                     ELSE IF end = "close"
                       THEN DoorCommandActions(doorControlType, "Close")
                     ELSE << >>)
          /\ TTCcountdown' = c
          /\ TTCtimerAttached' = (c > 0 /\ TTCtimerAttached)
          /\ h_did' = [NoDid EXCEPT
                         !.call = "tick",
                         !.set_light = IF c > 0 THEN << ~garage_door.light >>
                                       ELSE << >>,
                         !.door = IF end = "close" THEN << "Close" >> ELSE << >>,
                         !.end = end,
                         !.countdown = TTCcountdown,
                         !.attached = TTCtimerAttached]
          /\ h_ttc' = [h_ttc EXCEPT
                         !.ticks = @ + 1,
                         !.toggles = IF c > 0 THEN @ + 1 ELSE @,
                         !.doors = IF end = "close" THEN @ + 1 ELSE @,
                         !.fired = IF c = 0 /\ @ = 0 THEN h_ttc.ticks + 1 ELSE @,
                         !.late = IF h_ttc.cancelled THEN @ + 1 ELSE @]
          /\ UNCHANGED << garage_door, TTCwasLightOn, TTC_Action >>

\* The callback as the attached timer calls it
TTCdelayLoop ==
    /\ TTCtimerAttached
    /\ TTCtick(TTCcountdown)

-----------------------------------------------------------------------------
(* Obstruction detection: the pulse counting ISR and obstruction_timer *)

CHECK_PERIOD == 50
PULSES_LOWER_LIMIT == 3
CheckCap == CHECK_PERIOD + 1

\* What the obstruction and recovery handlers leave alone: the bus and the
\* packet queue
BusUnchanged ==
    /\ UNCHANGED << doorControlType, pkt_q, retryCount, rolling_code,
                    last_saved_code, nvram_rolling, h_next_id, h_rejected,
                    h_sent, h_fails, h_tx_age, h_tx_delay, h_rx_age,
                    h_min_since, h_max_since >>
    /\ Sec1Unchanged
    /\ RestartUnchanged
    /\ h_tx' = NoTx
    /\ h_prev_q' = pkt_q
    /\ h_prev_door' = garage_door

\* The sensor is awake and clear when enough pulses were counted in the
\* window
AwakeAndClear(low_count) == low_count > PULSES_LOWER_LIMIT

LineStuckHigh_Always(sinceAsleep) == TRUE

\* A steady high line means an obstruction once the line was last seen low
\* (asleep) long enough ago
LineStuckHigh(sinceAsleep) == sinceAsleep > AsleepTimeout

\* The body of obstruction_timer once a window has ended: the door model,
\* the time since the last asleep observation, the notifications.
ObstructionWindow(gd, low_count, pinHigh, sinceAsleep, trig) ==
    LET same  == [ door |-> gd, asleep |-> sinceAsleep, notes |-> NoNotes ]
        note  == IF trig THEN Bump(Bump(NoNotes, "obst"), "motion")
                 ELSE Bump(NoNotes, "obst")
    IN  IF AwakeAndClear(low_count)
        THEN IF gd.obstructed
             THEN [same EXCEPT
                     !.door = [gd EXCEPT !.obstructed = FALSE,
                                         !.motion = IF trig THEN FALSE ELSE @],
                     !.notes = note]
             ELSE same
        ELSE IF low_count = 0
          THEN IF ~pinHigh THEN [same EXCEPT !.asleep = 0]
               ELSE IF LineStuckHigh(sinceAsleep) /\ ~gd.obstructed
                 THEN [same EXCEPT
                         !.door = [gd EXCEPT !.obstructed = TRUE,
                                             !.motion = IF trig THEN TRUE ELSE @],
                         !.notes = note]
               ELSE same
        ELSE same

\* isr_obstruction: one low-going pulse on the sense line
isr_obstruction ==
    /\ obstruction_sensor' = [obstruction_sensor EXCEPT !.low_count = @ + 1]
    /\ notified' = NoNotes
    /\ h_event' = "Pulse"
    /\ h_did' = NoDid
    /\ BusUnchanged
    /\ SettingsUnchanged
    /\ RecoveryUnchanged
    /\ CountdownUnchanged
    /\ UNCHANGED << garage_door, since_check, TTCcountdown, TTCtimerAttached >>

\* d milliseconds pass between two runs of obstruction_timer
ObstructionElapse(d) ==
    /\ since_check' = Min(since_check + d, CheckCap)
    /\ obstruction_sensor' =
          [obstruction_sensor EXCEPT !.since_asleep = Min(@ + d, AsleepCap)]
    /\ notified' = NoNotes
    /\ h_event' = "Elapse"
    /\ h_did' = NoDid
    /\ BusUnchanged
    /\ SettingsUnchanged
    /\ RecoveryUnchanged
    /\ CountdownUnchanged
    /\ UNCHANGED << garage_door, TTCcountdown, TTCtimerAttached >>

\* obstruction_timer, one call from comms_loop.  pinHigh: the level
\* digitalRead(INPUT_OBST_PIN) returns; cleared: the motion-clear timer of
\* comms_loop, which runs just before the call, has cleared the motion flag
\* and notified it.
obstruction_timer(cleared, pinHigh) ==
    \E ends \in { since_check > CHECK_PERIOD } :
    \E w \in { IF ends
                THEN ObstructionWindow([garage_door EXCEPT !.motion = @ /\ ~cleared],
                                       obstruction_sensor.low_count, pinHigh,
                                       obstruction_sensor.since_asleep,
                                       "obstruction" \in motionTriggers)
                ELSE [ door |-> [garage_door EXCEPT !.motion = @ /\ ~cleared],
                       asleep |-> obstruction_sensor.since_asleep,
                       notes |-> NoNotes ] } :
        /\ garage_door' = w.door
        /\ obstruction_sensor' =
              [ low_count |-> IF ends THEN 0 ELSE obstruction_sensor.low_count,
                since_asleep |-> w.asleep ]
        /\ since_check' = IF ends THEN 0 ELSE since_check
        /\ notified' = IF cleared THEN Bump(w.notes, "motion") ELSE w.notes
        /\ h_event' = "Obstruction"
        /\ h_did' = [NoDid EXCEPT
                       !.call = "obstruction", !.window = ends,
                       !.pulses = obstruction_sensor.low_count,
                       !.high = pinHigh,
                       !.asleep = obstruction_sensor.since_asleep]
        /\ BusUnchanged
        /\ SettingsUnchanged
        /\ RecoveryUnchanged
        /\ CountdownUnchanged
        /\ UNCHANGED << TTCcountdown, TTCtimerAttached >>

-----------------------------------------------------------------------------
(* Initial states: the device has booted and setup_comms has run *)

\* Persisted counters a device can boot with: none (a fresh installation),
\* an ordinary one, and one a few sends short of the 28-bit wrap.
PersistedStart == {0, 100, CodeMask - 13}

Sec1DecoderInit ==
    [ doorState |-> "Unknown", prevDoor |-> 0, gd_currentstate |-> "Open",
      gd_TargetState |-> "Open", lightState |-> 2, lockState |-> 2,
      lastLightState |-> 255, lastLockState |-> 255 ]

InitCommon ==
    /\ garage_door = GarageDoorInit
    /\ TTCcountdown = 0
    /\ TTCtimerAttached = FALSE
    /\ TTCwasLightOn = FALSE
    /\ TTC_Action = "none"
    /\ force_recover = [ push_count |-> 0, since_armed |-> 0 ]
    /\ obstruction_sensor = [ low_count |-> 0, since_asleep |-> 0 ]
    /\ since_check = 0
    /\ h_did = NoDid
    /\ h_ttc = NoCountdown
    /\ h_seq = NoPresses
    /\ retryCount = 0
    /\ doorState = "Unknown"
    /\ prevDoor = 0
    /\ gd_currentstate = "Open"
    /\ gd_TargetState = "Open"
    /\ lightState = 2
    /\ lockState = 2
    /\ lastLightState = 255
    /\ lastLockState = 255
    /\ reading_msg = FALSE
    /\ rx_key = 0
    /\ wallPanelDetected = FALSE
    /\ wallplateBooting = FALSE
    /\ serialDetected = FALSE
    /\ inWindow = FALSE
    /\ emulateWallPanel = FALSE
    /\ stateIndex = 0
    /\ since_request = RequestCap
    /\ cmdDelay = 0
    /\ since_rx = AgeCap
    /\ since_tx = AgeCap
    /\ notified = NoNotes
    /\ h_event = "Init"
    /\ h_prev_door = GarageDoorInit
    /\ h_prev_sec1 = Sec1DecoderInit
    /\ h_door_vals = << None, None >>
    /\ h_rejected = {}
    /\ h_sent = << >>
    /\ h_tx = NoTx
    /\ h_fails = 0
    /\ h_prev_q = << >>
    /\ h_tx_delay = 0
    /\ h_rx_age = AgeCap
    /\ h_max_before = None
    /\ h_restarts = 0

\* The settings a device is shipped with: no time-to-close delay, no soft
\* access point, no motion trigger
DefaultSettings ==
    /\ TTCseconds = 0
    /\ softAPmode = FALSE
    /\ motionTriggers = {}

Boot2 ==
    /\ doorControlType = 2
    /\ InitCommon
    /\ \E nv \in PersistedStart, c1 \in BOOLEAN, c2 \in BOOLEAN, rxLow \in BOOLEAN :
         LET su == SetupComms2(nv, c1, c2, rxLow, 0)
         IN  /\ rolling_code = su.rolling_code
             /\ last_saved_code = su.saved
             /\ nvram_rolling = su.saved
             /\ pkt_q = su.q
             /\ h_next_id = Len(su.q)
             /\ h_min_since = SetMin(su.used)
             /\ h_max_since = SetMax(su.used)
             /\ h_nv_before = nv
             /\ h_tx_age = IF su.used = {} THEN AgeCap ELSE 0

Init2 == Boot2 /\ DefaultSettings

\* Protocol 1 keeps no counter; the rolling-code variables stay at 0.
Boot1 ==
    /\ doorControlType = 1
    /\ InitCommon
    /\ rolling_code = 0
    /\ last_saved_code = 0
    /\ nvram_rolling = 0
    /\ pkt_q = << >>
    /\ h_next_id = 0
    /\ h_min_since = None
    /\ h_max_since = None
    /\ h_nv_before = 0
    /\ h_tx_age = AgeCap

Init1 == Boot1 /\ DefaultSettings

\* d milliseconds pass between two presses
RecoveryElapse(d) ==
    /\ force_recover' =
          [force_recover EXCEPT !.since_armed = Min(@ + d, RecoveryCap)]
    /\ h_seq' = [h_seq EXCEPT !.age = Min(@ + d, RecoveryCap)]
    /\ notified' = NoNotes
    /\ h_event' = "Elapse"
    /\ h_did' = NoDid
    /\ BusUnchanged
    /\ SettingsUnchanged
    /\ ObstructionUnchanged
    /\ CountdownUnchanged
    /\ UNCHANGED << garage_door, TTCcountdown, TTCtimerAttached >>

\* The state setup_comms leaves after a restart under protocol 1: that of
\* Boot1, whatever the state before
Reboot1 ==
    /\ garage_door' = GarageDoorInit
    /\ TTCcountdown' = 0
    /\ TTCtimerAttached' = FALSE
    /\ TTCwasLightOn' = FALSE
    /\ TTC_Action' = "none"
    /\ force_recover' = [ push_count |-> 0, since_armed |-> 0 ]
    /\ obstruction_sensor' = [ low_count |-> 0, since_asleep |-> 0 ]
    /\ since_check' = 0
    /\ h_did' = NoDid
    /\ h_ttc' = NoCountdown
    /\ h_seq' = NoPresses
    /\ retryCount' = 0
    /\ doorState' = "Unknown"
    /\ prevDoor' = 0
    /\ gd_currentstate' = "Open"
    /\ gd_TargetState' = "Open"
    /\ lightState' = 2
    /\ lockState' = 2
    /\ lastLightState' = 255
    /\ lastLockState' = 255
    /\ reading_msg' = FALSE
    /\ rx_key' = 0
    /\ wallPanelDetected' = FALSE
    /\ wallplateBooting' = FALSE
    /\ serialDetected' = FALSE
    /\ inWindow' = FALSE
    /\ emulateWallPanel' = FALSE
    /\ stateIndex' = 0
    /\ since_request' = RequestCap
    /\ cmdDelay' = 0
    /\ since_rx' = AgeCap
    /\ since_tx' = AgeCap
    /\ notified' = NoNotes
    /\ h_event' = "Init"
    /\ h_prev_door' = GarageDoorInit
    /\ h_prev_sec1' = Sec1DecoderInit
    /\ h_door_vals' = << None, None >>
    /\ h_rejected' = {}
    /\ h_sent' = << >>
    /\ h_tx' = NoTx
    /\ h_fails' = 0
    /\ h_prev_q' = << >>
    /\ h_tx_delay' = 0
    /\ h_rx_age' = AgeCap
    /\ h_max_before' = None
    /\ h_restarts' = 0
    /\ rolling_code' = 0
    /\ last_saved_code' = 0
    /\ nvram_rolling' = 0
    /\ pkt_q' = << >>
    /\ h_next_id' = 0
    /\ h_min_since' = None
    /\ h_max_since' = None
    /\ h_nv_before' = 0
    /\ h_tx_age' = AgeCap
    /\ UNCHANGED doorControlType

\* The last tick of the countdown manual_recovery started: TTCdelayLoop
\* detaches the timer and calls sync_and_restart; the device boots again
\* (protocol 1) with the soft access point setting that was saved.
RecoveryRestart ==
    /\ doorControlType = 1
    /\ TTCtimerAttached
    /\ TTC_Action = "restart"
    /\ Uint8(TTCcountdown + 255) = 0
    /\ Reboot1
    /\ SettingsUnchanged

-----------------------------------------------------------------------------
(* Protocol 2, receive side: Status frames arrive *)

RxStatus2 == \E f \in StatusFrames : CommsLoopSec2(TRUE, f, FALSE)

RxByte2 == CommsLoopSec2(TRUE, NoFrame, FALSE)

SpecDoor2 == Init2 /\ [][ RxStatus2 \/ RxByte2 ]_vars

-----------------------------------------------------------------------------
(* Protocol 1, receive side: the opener and a wall panel talk on the bus *)

\* wallPlate_Emulation asks whether a byte is waiting only until it has
\* seen bus traffic
MoreInputs == IF serialDetected THEN {FALSE} ELSE BOOLEAN

\* First bytes of a message: door release, the door and obstruction status
\* polls, and a byte outside the message range.  Second bytes: every 3-bit
\* value under the upper nibbles 0x0, 0x5, 0xB (accepted for a door status)
\* and 0x3 (not accepted).
RxDoorByte1 ==
    \E b \in (IF reading_msg
              THEN { n * 16 + l : n \in {0, 3, 5, 11}, l \in 0..7 }
              ELSE { DoorButtonRelease, DoorStatus, ObstructionStatus, 0 }),
       more \in MoreInputs :
        CommsLoopSec1(b, FALSE, more)

IdleTick1 == \E more \in MoreInputs : CommsLoopSec1(None, FALSE, more)

SpecDoor1 == Init1 /\ [][ RxDoorByte1 \/ IdleTick1 ]_vars

-----------------------------------------------------------------------------
(* Protocol 2, the rolling counter: commands are queued, ticks send them    *)
(* (the bus may be found asserted), and the device restarts.                *)

DoorActions == {"Toggle"}

\* A tick with nothing received; the bus is free or found asserted
TxTick2 == \E busAsserted \in BOOLEAN : CommsLoopSec2(FALSE, NoFrame, busAsserted)

\* A tick with nothing received and the bus free
SendTick2 == CommsLoopSec2(FALSE, NoFrame, FALSE)

DoorCommand ==
    /\ h_next_id < MaxEnq
    /\ \E action \in DoorActions : door_command(action)

SendGetStatus ==
    /\ h_next_id < MaxEnq
    /\ send_get_status

\* The counter between restarts: commands, sends and flushes
SpecFlush2 ==
    /\ Init2
    /\ [][ SendTick2 \/ RxByte2 \/ DoorCommand \/ SendGetStatus ]_vars

FewDoorCommands ==
    /\ h_next_id < MaxEnqRestart
    /\ \E action \in DoorActions : door_command(action)

Reboot ==
    \E clean \in BOOLEAN, c1 \in BOOLEAN, c2 \in BOOLEAN, rxLow \in BOOLEAN :
        Restart(clean, c1, c2, rxLow)

\* The counter across restarts
SpecCode2 ==
    /\ Init2
    /\ [][ SendTick2 \/ RxByte2 \/ FewDoorCommands \/ Reboot ]_vars

-----------------------------------------------------------------------------
(* The command queue, both protocols: commands are queued while ticks send, *)
(* fail and retry.                                                          *)

\* A protocol-1 tick with nothing received; the bus is free or busy
TxTick1 == \E busy \in BOOLEAN : CommsLoopSec1(None, busy, FALSE)

\* Long enough passes for every protocol-1 timing rule to allow a send
LongPause ==
    /\ doorControlType = 1
    /\ Elapse(AgeCap)

QueueDoorCommand ==
    /\ h_next_id < MaxEnqQueue
    /\ \E action \in DoorActions : door_command(action)

QueueGetStatus ==
    /\ h_next_id < MaxEnqQueue
    /\ send_get_status

\* Either protocol; protocol 2 from one ordinary persisted counter with both
\* frames of sync() sent.
InitQueue ==
    \/ Init1
    \/ Init2 /\ h_nv_before = 100 /\ rolling_code = BumpedCode(100) + 2

SpecQueue ==
    /\ InitQueue
    /\ [][ TxTick1 \/ LongPause \/ TxTick2 \/ RxByte2 \/ QueueDoorCommand
           \/ QueueGetStatus ]_vars

-----------------------------------------------------------------------------
(* Timing of the sends.  Time passes between handlers in steps.             *)

PauseSteps == {100}

\* Protocol 1: the opener (or a wall panel) sends a door status
RxByteTiming1 ==
    \E b \in { DoorStatus, 0 }, more \in MoreInputs :
        CommsLoopSec1(b, FALSE, more)

\* The bus is found busy at most MaxBusy times
BusyInputs == IF retryCount < MaxBusy THEN BOOLEAN ELSE {FALSE}

TickTiming1 ==
    \E busy \in BusyInputs, more \in MoreInputs : CommsLoopSec1(None, busy, more)

Pause1 ==
    /\ doorControlType = 1
    /\ \E d \in PauseSteps : Elapse(d)

TimedDoorCommand ==
    /\ h_next_id < MaxEnqTiming
    /\ \E action \in DoorActions : door_command(action)

SpecTiming1 ==
    /\ Init1
    /\ [][ RxByteTiming1 \/ TickTiming1 \/ Pause1 \/ TimedDoorCommand ]_vars

Pause2 ==
    /\ doorControlType = 2
    /\ \E d \in PauseSteps : Elapse(d)

\* Protocol 2 from one ordinary persisted counter with both frames of sync()
\* sent
InitTiming2 == Init2 /\ h_nv_before = 100 /\ rolling_code = BumpedCode(100) + 2

SpecTiming2 ==
    /\ InitTiming2
    /\ [][ SendTick2 \/ RxByte2 \/ Pause2 \/ TimedDoorCommand ]_vars

-----------------------------------------------------------------------------
(* Claims *)

\* C2: protocol 1, after every accepted door-status value: unless the
\* accepted door-status value before it carried the same low 3 bits, nothing
\* is committed: doorState and garage_door are as they were.  The first
\* door-status value after start-up has no value before it.
C2_SingleValueNeverCommits ==
    (h_event = "DoorStatus" /\ h_door_vals[1] /= h_door_vals[2]) =>
        /\ doorState = h_prev_sec1.doorState
        /\ garage_door = h_prev_door

\* C1: protocol 2, after every Status frame: the current-door and the
\* target-door notification were each emitted at most once, and each only if
\* its own value differs from the value held before the frame.
C1_EachNotifiedOnlyOnOwnChange ==
    h_event = "Status" =>
        /\ notified.cur <= 1
        /\ notified.tgt <= 1
        /\ (notified.cur = 1 =>
                garage_door.current_state /= h_prev_door.current_state)
        /\ (notified.tgt = 1 =>
                garage_door.target_state /= h_prev_door.target_state)

\* C3: protocol 2, across restarts (clean or crash, from any persisted
\* value): every rolling code used to encode a frame since the last restart
\* is strictly greater than every rolling code used before that restart.
C3_CodesAfterRestartAreFresh ==
    (h_min_since /= None /\ h_max_before /= None) => h_min_since > h_max_before

\* C4: protocol 2, at the end of every handler: the persisted counter is
\* behind the in-memory counter by less than the batch size, because the tick
\* in which the difference reaches the batch size writes the counter.
C4_PersistedWithinBatch ==
    doorControlType = 2 =>
        /\ rolling_code - nvram_rolling < MAX_CODES_WITHOUT_FLASH_WRITE
        /\ nvram_rolling = last_saved_code

\* A tick has just sent the tenth counted frame since start-up and has
\* written the counter in the same tick.
C4_FlushedInSameTick ==
    /\ h_event = "Tx"
    /\ h_tx.ok
    /\ h_prev_q[1].inc_counter
    /\ rolling_code = BumpedCode(h_nv_before) + MAX_CODES_WITHOUT_FLASH_WRITE
    /\ nvram_rolling = rolling_code

\* C5: after every run of setup_comms for protocol 2 (start-up or restart),
\* the in-memory counter is strictly greater than the persisted counter that
\* setup_comms found.
C5_CounterAheadAfterRestart ==
    (doorControlType = 2 /\ h_event \in {"Init", "Restart"}) =>
        rolling_code > h_nv_before

\* C6: both protocols, after every failed send attempt: nothing was written
\* to the bus and, unless this same action had already failed
\* MAX_COMMS_RETRY times, it is back at the head of the queue, exactly once.
C6_FailedSendRequeuedOnce ==
    (h_tx.attempt /\ ~h_tx.ok) =>
        /\ ~h_tx.written
        /\ (h_tx.fails < MAX_COMMS_RETRY => h_tx.requeued)

\* C9: both protocols: the actions written to the bus appear in the order in
\* which they were accepted into the queue (ids grow with acceptance), each
\* at most once.
C9_SentInAcceptanceOrder ==
    \A i \in 1..(Len(h_sent) - 1) : h_sent[i] < h_sent[i + 1]

\* An action that had failed and was retried has just been sent, after an
\* earlier action and with later actions still queued behind it.
C9_RetriedActionSentInTurn ==
    /\ h_tx.ok
    /\ h_tx.fails > 0
    /\ Len(h_sent) >= 2
    /\ Len(pkt_q) > 0

\* C10: the queue never holds more than QUEUE_LENGTH actions; an enqueue on
\* a full queue is rejected and leaves the queued actions and their order as
\* they were (a command only appends, and appends nothing to a full queue);
\* a rejected action is neither queued nor ever written to the bus; and the
\* service tick can always run.
C10_QueueBoundedRejectsWhenFull ==
    /\ Len(pkt_q) <= QUEUE_LENGTH
    /\ h_event = "Cmd" =>
          /\ Len(pkt_q) >= Len(h_prev_q)
          /\ SubSeq(pkt_q, 1, Len(h_prev_q)) = h_prev_q
          /\ (Len(h_prev_q) = QUEUE_LENGTH => pkt_q = h_prev_q)
    /\ \A k \in 1..Len(pkt_q) : pkt_q[k].id \notin h_rejected
    /\ \A k \in 1..Len(h_sent) : h_sent[k] \notin h_rejected
    /\ ENABLED (TxTick1 \/ TxTick2)

\* A command has just had its last enqueue rejected by a full queue.
C10_EnqueueRejected ==
    /\ h_event = "Cmd"
    /\ Len(pkt_q) = QUEUE_LENGTH
    /\ (h_next_id - 1) \in h_rejected

\* C7: protocol 1: whenever a tick dequeues and attempts an action, more than
\* RxTxGap ms have passed since the last received byte and since the last
\* written byte, more than the declared delay of the action last written has
\* passed since it was written, and, with a wall panel detected, less than
\* PanelWindow ms have passed since the last received byte.
C7_AttemptOnlyWhenBusQuiet ==
    (doorControlType = 1 /\ h_tx.attempt) =>
        /\ h_tx.since_rx > RxTxGap
        /\ h_tx.since_tx > RxTxGap
        /\ h_tx.since_tx > h_tx.owed
        /\ (h_tx.panel => h_tx.since_rx < PanelWindow)

\* With a wall panel detected, an action is attempted after an earlier action
\* was written.
C7_AttemptWithPanel ==
    /\ doorControlType = 1
    /\ h_tx.attempt
    /\ h_tx.panel
    /\ h_tx.owed > 0

\* C8 as stated: protocol 2: an action is attempted only when the declared
\* delay of the action last written has passed since it was written, and at
\* least the gap RxTxGap since the last received and the last written byte.
C8_WaitsForDelayAndGap ==
    (doorControlType = 2 /\ h_tx.attempt) =>
        /\ h_tx.since_tx >= h_tx.owed
        /\ h_tx.since_tx >= RxTxGap
        /\ h_tx.since_rx >= RxTxGap

\* C8, amended: protocol 2: a tick attempts the action at the head of the
\* queue exactly when the queue is not empty and no received byte is waiting
\* in that tick, whatever time has passed.
C8_AttemptedWheneverNoByteWaits ==
    (doorControlType = 2 /\ h_event \in {"Tx", "Byte", "Status"}) =>
        (h_tx.attempt <=> (h_event = "Tx" /\ Len(h_prev_q) > 0))

\* An action is attempted although the declared delay of the action written
\* before it has not passed.
C8_AttemptedBeforeDelayElapsed ==
    /\ doorControlType = 2
    /\ h_tx.attempt
    /\ h_tx.owed > 0
    /\ h_tx.since_tx < h_tx.owed

-----------------------------------------------------------------------------
(* Protocol 1: the light and lock status before the door status *)

\* A light/lock status poll besides the door status; values under the upper
\* nibble 0x5: door Open (2) or a value that decodes to no door state (3),
\* with the light bit set or clear
RxNotifyByte1 ==
    \E b \in { DoorStatus, LightLockStatus, 80 + 2, 80 + 3, 80 + 2 + 4 },
       more \in MoreInputs :
        CommsLoopSec1(b, FALSE, more)

SpecNotify1 == Init1 /\ [][ RxNotifyByte1 \/ IdleTick1 ]_vars

\* C11: a handler that emits a state-change notification (door, target,
\* light, lock, obstruction, motion) leaves the door model active: nothing
\* is announced before the first door status has set garage_door.active.
C11_NoNotificationBeforeActive ==
    notified /= NoNotes => garage_door.active

\* C12: garage_door.active turns true only in a handler that decoded a door
\* status to a known state (never Unknown), and once true it stays true for
\* as long as the device runs.
C12_ActivatedOnlyByKnownDoorStatus ==
    /\ (garage_door.active /\ ~h_prev_door.active)
          => h_did.decoded \in DoorStates \ {"Unknown"}
    /\ (h_prev_door.active /\ h_event /= "Restart") => garage_door.active

\* C13: a byte that arrives more than RxTimeout ms after the first byte of a
\* two-byte message is not taken as that message's value byte.
C13_LateByteStartsNewMessage ==
    h_did.late => ~h_did.asValue

-----------------------------------------------------------------------------
(* The time-to-close delay: requests, timer ticks and door statuses in any  *)
(* order                                                                    *)

MaxRequests == 2
MaxTicks == 13

\* The delays are ones a user can configure (the setting is an int with no
\* range check): none, the shortest, 6 s, and two that do not fit the
\* counter doubled
InitTTC ==
    /\ Boot2
    /\ h_nv_before = 100
    /\ rolling_code = BumpedCode(100) + 2
    /\ TTCseconds \in {0, 1, 6, 128, 129}
    /\ softAPmode = FALSE
    /\ motionTriggers = {}

CloseRequest ==
    /\ h_ttc.requests < MaxRequests
    /\ close_door

OpenRequest ==
    /\ h_ttc.requests < MaxRequests
    /\ open_door

TimerTick ==
    /\ h_ttc.ticks < MaxTicks
    /\ TTCdelayLoop

\* Protocol 2: the opener reports the door moving, with the light off or on
RxStatusTTC2 ==
    \E f \in [ cmd : {"Status"}, door : {"Opening", "Closing"},
               light : BOOLEAN, lock : {FALSE} ] :
        CommsLoopSec2(TRUE, f, FALSE)

\* Protocol 1: door status polls answered Opening or Closing
RxByteTTC1 ==
    \E b \in { DoorStatus, 80 + 1, 80 + 4 } : CommsLoopSec1(b, FALSE, FALSE)

SpecTTC ==
    /\ InitTTC
    /\ [][ CloseRequest \/ OpenRequest \/ TimerTick \/ RxStatusTTC2 ]_vars

-----------------------------------------------------------------------------
(* A door status during the countdown, under both protocols *)

InitCancel ==
    /\ Boot1 \/ (Boot2 /\ h_nv_before = 100 /\ rolling_code = BumpedCode(100) + 2)
    /\ TTCseconds \in {1, 6}
    /\ softAPmode = FALSE
    /\ motionTriggers = {}

\* Protocol 2: the opener reports the door moving
RxStatusCancel2 ==
    \E f \in [ cmd : {"Status"}, door : {"Opening", "Closing"},
               light : {FALSE}, lock : {FALSE} ] :
        CommsLoopSec2(TRUE, f, FALSE)

SpecCancel ==
    /\ InitCancel
    /\ [][ CloseRequest \/ TimerTick \/ RxStatusCancel2 \/ RxByteTTC1 ]_vars

\* C14: a close request with delay d > 0, door neither Closed nor Opening
\* and no countdown running, enqueues nothing and seeds the counter with
\* 2*d; an undisturbed countdown fires its end action on tick 2*d exactly,
\* and every tick before that toggles the light and sends no door command.
C14_EndActionOnTick2d ==
    /\ ( /\ h_did.call = "close"
         /\ TTCseconds > 0
         /\ garage_door.current_state \notin {"Closed", "Opening"}
         /\ ~h_did.attached )
       => /\ h_did.door = << >>
          /\ pkt_q = h_prev_q
          /\ TTCtimerAttached
          /\ TTCcountdown = 2 * TTCseconds
    /\ (h_ttc.seed > 0 /\ ~h_ttc.cancelled)
       => /\ h_ttc.fired > 0 => h_ttc.fired = 2 * h_ttc.seed
          /\ h_ttc.ticks >= 2 * h_ttc.seed => h_ttc.fired > 0
          /\ h_ttc.fired = 0 => (h_ttc.toggles = h_ttc.ticks /\ h_ttc.doors = 0)

\* C15: an open request made while the countdown timer runs stops it (counter
\* 0, timer detached, so no further tick and no end action) and calls
\* set_light with the light value remembered when the countdown started.
C15_OpenStopsCountdownRestoresLight ==
    (h_did.call = "open" /\ h_did.attached)
       => /\ TTCcountdown = 0
          /\ ~TTCtimerAttached
          /\ h_did.set_light = << TTCwasLightOn >>

\* C16: a close request made while the countdown timer runs cancels it and
\* enqueues the close command in the same call; a close request made while
\* none runs and the delay is above 0 starts a countdown and enqueues nothing.
C16_SecondCloseCancelsAndCloses ==
    /\ (h_did.call = "close" /\ h_did.attached)
       => /\ TTCcountdown = 0
          /\ ~TTCtimerAttached
          /\ h_did.door = << "Close" >>
          /\ h_did.end = "none"
    /\ (h_did.call = "close" /\ ~h_did.attached /\ TTCseconds > 0)
       => /\ TTCtimerAttached
          /\ h_did.door = << >>
          /\ pkt_q = h_prev_q

-----------------------------------------------------------------------------
(* The obstruction sensor: pulses, pauses and sampling windows in any order *)

MaxPulses == 4

InitObstruction ==
    /\ Boot1
    /\ TTCseconds = 0
    /\ softAPmode = FALSE
    /\ motionTriggers \in { {}, {"obstruction"} }

Pulse ==
    /\ obstruction_sensor.low_count < MaxPulses
    /\ isr_obstruction

\* A pause that ends a window, and one that together with it reaches the
\* asleep timeout exactly
ObstructionPause ==
    \E d \in { CHECK_PERIOD + 1, AsleepTimeout - (CHECK_PERIOD + 1) } :
        ObstructionElapse(d)

ObstructionCheck == \E pinHigh \in BOOLEAN : obstruction_timer(FALSE, pinHigh)

SpecObstruction ==
    /\ InitObstruction
    /\ [][ Pulse \/ ObstructionPause \/ ObstructionCheck ]_vars

\* C18: when a sampling window ends with at least 3 pulses counted, the
\* door is not obstructed afterwards; a flag that was set is cleared with
\* exactly one obstruction notification, a clear flag gives none.
C18_ThreePulsesClear ==
    (h_did.window /\ h_did.pulses >= 3)
       => /\ ~garage_door.obstructed
          /\ notified.obst = IF h_prev_door.obstructed THEN 1 ELSE 0

\* C19: a window with no pulse and the line high sets obstructed exactly
\* when the line was last seen low more than 700 ms ago; a window with no
\* pulse and the line low only restarts that time; obstruction_timer
\* notifies once when the flag changes and not otherwise.
C19_StuckHighObstructsAfterTimeout ==
    /\ (h_did.window /\ h_did.pulses = 0 /\ h_did.high)
       => /\ garage_door.obstructed
               <=> (h_prev_door.obstructed \/ h_did.asleep > 700)
          /\ obstruction_sensor.since_asleep = h_did.asleep
    /\ (h_did.window /\ h_did.pulses = 0 /\ ~h_did.high)
       => /\ garage_door = h_prev_door
          /\ obstruction_sensor.since_asleep = 0
          /\ notified = NoNotes
    /\ h_did.call = "obstruction"
       => notified.obst =
            IF garage_door.obstructed /= h_prev_door.obstructed THEN 1 ELSE 0

\* A window with no pulse and the line high has just set the flag, and the
\* line had been seen low (asleep) before
C19_ObstructionDetected ==
    /\ h_did.window
    /\ h_did.pulses = 0
    /\ h_did.high
    /\ garage_door.obstructed
    /\ ~h_prev_door.obstructed
    /\ notified.obst = 1

-----------------------------------------------------------------------------
(* Manual recovery: presses on the wall panel (protocol 1), pauses, and the *)
(* countdown that ends in the restart                                       *)

MaxPresses == 7

InitRecovery ==
    /\ Boot1
    /\ TTCseconds = 0
    /\ softAPmode = FALSE
    /\ motionTriggers \in { {}, {"doorKey"} }

ButtonPress ==
    /\ h_seq.total < MaxPresses
    /\ \E b \in {DoorButtonPress, LightButtonPress} : CommsLoopSec1(b, FALSE, FALSE)

\* A pause within the window, and one that exceeds it
RecoveryPause == \E d \in { 1000, RecoveryWindow + 1 } : RecoveryElapse(d)

SpecRecovery ==
    /\ InitRecovery
    /\ [][ ButtonPress \/ RecoveryPause \/ TTCdelayLoop \/ RecoveryRestart ]_vars

\* C20: recovery is requested only at a press that is at least the fifth of
\* its sequence (the presses no later than 3 s after the first); a sequence
\* that reaches five presses has requested it, and exactly once however many
\* presses follow; a sequence of fewer than five has not.
C20_RecoveryRequestedOncePerSequence ==
    /\ h_did.recovery => h_seq.presses >= 5
    /\ h_seq.presses >= 5 => h_seq.requests = 1
    /\ h_seq.presses < 5 => h_seq.requests = 0

-----------------------------------------------------------------------------
(* The contexts the shared state is written from: the bridge's requests,    *)
(* the countdown timer and the service ticks of both protocols              *)

LockRequest ==
    /\ h_ttc.requests < MaxRequests
    /\ \E value \in BOOLEAN : set_lock(value)

LightRequest ==
    /\ h_ttc.requests < MaxRequests
    /\ \E value \in BOOLEAN : set_light(value)

SpecContext ==
    /\ InitCancel
    /\ [][ LockRequest \/ LightRequest \/ OpenRequest \/ CloseRequest
           \/ TimerTick \/ RxStatusCancel2 \/ RxByteTTC1 ]_vars

\* C21: a step that changes the door model, the rolling counter or the
\* command queue is a step of the service-tick context (the loop task):
\* no entry point called by the bridge and no timer callback changes them.
C21_SharedStateWrittenByTickOnly ==
    [][ (garage_door' /= garage_door \/ rolling_code' /= rolling_code
           \/ pkt_q' /= pkt_q)
        => ContextOf(h_did'.call) = "loop" ]_vars

-----------------------------------------------------------------------------
(* The retry budget                                                         *)

\* C22: both protocols: an action is attempted at most MAX_COMMS_RETRY + 1
\* times (at every attempt it has failed at most MAX_COMMS_RETRY times
\* before); a send that fails with retryCount at MAX_COMMS_RETRY removes the
\* action from the queue, resets retryCount to 0 and leaves the actions that
\* were behind it at the head of the queue, in their order.
C22_DroppedAfterRetryBudget ==
    /\ h_tx.attempt => h_tx.fails <= MAX_COMMS_RETRY
    /\ retryCount <= MAX_COMMS_RETRY
    /\ (h_tx.attempt /\ ~h_tx.ok /\ h_tx.retry >= MAX_COMMS_RETRY) =>
          /\ h_tx.dropped
          /\ retryCount = 0
          /\ Len(pkt_q) >= Len(h_prev_q) - 1
          /\ SubSeq(pkt_q, 1, Len(h_prev_q) - 1) = Tail(h_prev_q)

\* An action has just been dropped on its failed send with the budget spent,
\* and another action waits behind it.
C22_DroppedWithOthersQueued ==
    /\ h_tx.attempt
    /\ ~h_tx.ok
    /\ h_tx.retry = MAX_COMMS_RETRY
    /\ h_tx.dropped
    /\ Len(pkt_q) > 0

-----------------------------------------------------------------------------
(* Progress of the queue.  The service tick keeps running and time keeps    *)
(* passing (weak fairness); bytes arrive and the bus is found busy only     *)
(* finitely often in the behaviours the property speaks of.                 *)

\* Protocol 1: a wall panel reports the light and the lock
RxLive1 ==
    \E b \in { LightLockStatus, 80 }, more \in MoreInputs :
        CommsLoopSec1(b, FALSE, more)

TickLive1 == \E busy \in BusyInputs : CommsLoopSec1(None, busy, FALSE)

TickLive2 ==
    \E busAsserted \in BusyInputs : CommsLoopSec2(FALSE, NoFrame, busAsserted)

SpecLive ==
    /\ InitQueue
    /\ [][ RxLive1 \/ TickLive1 \/ Pause1 \/ RxByte2 \/ TickLive2 \/ Pause2
           \/ FewDoorCommands ]_vars
    /\ WF_vars(TickLive1 \/ TickLive2)
    /\ WF_vars(Pause1 \/ Pause2)

\* h: the last handler received no byte and found the bus free
BusIdle ==
    /\ h_event \in {"Init", "Tx", "Cmd", "Elapse"}
    /\ ~(h_tx.attempt /\ ~h_tx.ok)

\* C23: if the bus eventually stays idle, every action in the queue
\* eventually leaves it (sent or dropped), in protocol 2 and in protocol 1
\* with and without a detected wall panel.  Finitely many actions are
\* accepted, so every one of them leaves exactly if the queue empties.
C23_QueuedActionLeavesQueue ==
    (<>[]BusIdle) => (pkt_q /= << >> ~> pkt_q = << >>)

\* C23 as the code has it: if the bus eventually stays idle, every action in
\* the queue eventually leaves it, unless protocol 1 has detected a wall
\* panel: then a send needs a byte received less than PanelWindow ms ago.
C23_QueuedActionLeavesUnlessPanel ==
    (<>[]BusIdle) => (pkt_q /= << >> ~> (pkt_q = << >> \/ wallPanelDetected))

\* Protocol 1 without a wall panel: an action that found the bus busy has
\* been sent on a later tick and the queue is empty.
C23_SentOnceBusIdle ==
    /\ doorControlType = 1
    /\ ~wallPanelDetected
    /\ h_tx.ok
    /\ h_tx.fails > 0
    /\ pkt_q = << >>

-----------------------------------------------------------------------------
(* Protocol 2: the counter over sends, collisions and retries, from every   *)
(* persisted value                                                          *)

SpecSend2 ==
    /\ Init2
    /\ [][ TxTick2 \/ RxByte2 \/ QueueDoorCommand ]_vars

\* C24: protocol 2, every tick: the rolling counter becomes
\* (counter + 1) mod 2^28 if the tick sent a flagged action, and is left as
\* it was otherwise: on a collision, when the action sent is not flagged,
\* and when nothing was attempted.  A retried action therefore advances the
\* counter once, in the tick that sends it.
C24_CounterAdvancesOncePerFlaggedSend ==
    [][ (doorControlType = 2 /\ h_event' \in {"Tx", "Byte", "Status"}) =>
            rolling_code' =
                IF h_tx'.attempt /\ h_tx'.ok /\ Head(pkt_q).inc_counter
                THEN (rolling_code + 1) % (CodeMask + 1)
                ELSE rolling_code ]_vars

\* A flagged action that had met a collision has been sent on the retry and
\* the counter has wrapped to 0.
C24_RetriedSendWrapsCounter ==
    /\ doorControlType = 2
    /\ h_tx.ok
    /\ h_tx.fails > 0
    /\ h_prev_q[1].inc_counter
    /\ rolling_code = 0

\* C25: protocol 2, in every state, the state left by setup_comms included:
\* the rolling counter in memory and the counter in persistent storage are
\* below 2^28.
C25_CounterBelowWidth ==
    doorControlType = 2 =>
        /\ rolling_code <= CodeMask
        /\ nvram_rolling <= CodeMask

-----------------------------------------------------------------------------
(* Door statuses of either protocol                                         *)

InitDoor == Init1 \/ Init2

SpecDoor ==
    /\ InitDoor
    /\ [][ RxDoorByte1 \/ IdleTick1 \/ RxStatus2 \/ RxByte2 ]_vars

\* C26: both protocols, after a handler that decoded a door status
\* (protocol 1: a committed one).  If it activated the door model, the target
\* is Open when the resulting current state is Opening or Open and Closed
\* otherwise, Stopped included.  If the model was active already, the target
\* is the one mapped to the decoded state: Open for Open, Opening and
\* Stopped, Closed for Closed and Closing, and as it was for Unknown.
C26_TargetAtAndAfterActivation ==
    h_did.decoded /= "none" =>
        /\ garage_door.active
        /\ ~h_prev_door.active =>
              garage_door.target_state =
                  IF garage_door.current_state \in {"Opening", "Open"}
                  THEN "Open" ELSE "Closed"
        /\ h_prev_door.active =>
              garage_door.target_state =
                  CASE h_did.decoded \in {"Open", "Opening", "Stopped"} -> "Open"
                    [] h_did.decoded \in {"Closed", "Closing"} -> "Closed"
                    [] OTHER -> h_prev_door.target_state

\* Protocol 1: a committed Stopped status has activated the door model and
\* left the target Closed.
C26_ActivatedStopped ==
    /\ doorControlType = 1
    /\ h_did.decoded = "Stopped"
    /\ ~h_prev_door.active
    /\ garage_door.active
    /\ garage_door.current_state = "Stopped"
    /\ garage_door.target_state = "Closed"

\* C27: a protocol-2 Status frame and a committed protocol-1 door status
\* that decode to the same door state leave garage_door with the same
\* current_state and target_state, from every door model: after a Status
\* frame the pair is the one a committed protocol-1 value decoding to the
\* same state would have left, and after a committed protocol-1 value it is
\* the one a Status frame carrying the decoded state would have left.
\* Protocol 1 decodes the low 3 bits as 0 Stopped, 1 Opening, 2 Open,
\* 4 Closing, 5 Closed, 6 Stopped, 3 and 7 Unknown.
C27_SameDoorFromBothProtocols ==
    /\ (doorControlType = 2 /\ h_event = "Status") =>
          \A v \in 0..7 :
              DecodeDoor1(v) = h_did.decoded =>
                  \E c \in { CommitDoor1(Sec1Decoder, h_prev_door, v, 0).door } :
                      /\ c.current_state = garage_door.current_state
                      /\ c.target_state = garage_door.target_state
    /\ (doorControlType = 1 /\ h_did.decoded /= "none") =>
          /\ h_did.decoded =
                CASE h_door_vals[2] \in {0, 6} -> "Stopped"
                  [] h_door_vals[2] = 1 -> "Opening"
                  [] h_door_vals[2] = 2 -> "Open"
                  [] h_door_vals[2] = 4 -> "Closing"
                  [] h_door_vals[2] = 5 -> "Closed"
                  [] OTHER -> "Unknown"
          /\ doorState = h_did.decoded
          /\ \E s \in { StatusDoor2(h_prev_door,
                            [ cmd |-> "Status", door |-> h_did.decoded,
                              light |-> FALSE, lock |-> FALSE ]).door } :
                 /\ s.current_state = garage_door.current_state
                 /\ s.target_state = garage_door.target_state

\* Protocol 1: the value 6 has been committed as Stopped on an active door
\* model whose target was Closed.
C27_StoppedCommittedFromSix ==
    /\ doorControlType = 1
    /\ h_did.decoded = "Stopped"
    /\ h_door_vals[2] = 6
    /\ h_prev_door.active
    /\ h_prev_door.target_state = "Closed"

-----------------------------------------------------------------------------
(* Protocol 1: door and light/lock status values, accepted and rejected,    *)
(* while a time-to-close delay may be running                               *)

\* The two status keys, and values under the upper nibbles 0x5 (accepted by
\* both decoders: door Stopped with the light on and the lock on, door Open
\* with the light off and the lock off), 0x0 (accepted for the door only)
\* and 0xA (accepted by neither)
RxStatusByte1 ==
    \E b \in { DoorStatus, LightLockStatus, 86, 90, 2, 162 } :
        CommsLoopSec1(b, FALSE, FALSE)

InitStatus1 ==
    /\ Boot1
    /\ TTCseconds = 1
    /\ softAPmode = FALSE
    /\ motionTriggers \in { {}, {"lightKey", "lockKey"} }

SpecStatus1 ==
    /\ InitStatus1
    /\ [][ RxStatusByte1 \/ CloseRequest \/ TimerTick ]_vars

\* C28: protocol 1: after a door-status message whose value has an upper
\* nibble other than 0x0, 0x5, 0xB: doorState, the debounce candidate,
\* garage_door and the time-to-close countdown are as they were and nothing
\* was announced; after a light/lock message whose value has an upper nibble
\* other than 0x5: the light and lock state are as they were and nothing was
\* announced.
C28_RejectedStatusChangesNothing ==
    /\ (h_did.key = DoorStatus /\ (h_did.val \div 16) \notin {0, 5, 11}) =>
          /\ doorState = h_prev_sec1.doorState
          /\ prevDoor = h_prev_sec1.prevDoor
          /\ garage_door = h_prev_door
          /\ TTCcountdown = h_did.countdown
          /\ TTCtimerAttached = h_did.attached
          /\ notified = NoNotes
    /\ (h_did.key = LightLockStatus /\ (h_did.val \div 16) /= 5) =>
          /\ lightState = h_prev_sec1.lightState
          /\ lockState = h_prev_sec1.lockState
          /\ lastLightState = h_prev_sec1.lastLightState
          /\ lastLockState = h_prev_sec1.lastLockState
          /\ garage_door = h_prev_door
          /\ notified = NoNotes

\* A door-status value with the upper nibble 0xA has been dispatched while
\* the door model was active and a countdown was running.
C28_RejectedDuringCountdown ==
    /\ h_did.key = DoorStatus
    /\ h_did.val = 162
    /\ garage_door.active
    /\ TTCcountdown > 0

\* C29: protocol 1: after a light/lock message whose value has the upper
\* nibble 0x5, the light was announced exactly if bit 2 differs from the last
\* light value announced, and the lock (target and current) exactly if bit 3
\* inverted differs from the last lock value announced, each at most once;
\* the values are then remembered, so a repeated poll announces nothing.
C29_LightLockAnnouncedOnChangeOnly ==
    (h_did.key = LightLockStatus /\ (h_did.val \div 16) = 5) =>
        /\ notified.light =
              IF (h_did.val \div 4) % 2 /= h_prev_sec1.lastLightState
              THEN 1 ELSE 0
        /\ notified.lockT =
              IF 1 - ((h_did.val \div 8) % 2) /= h_prev_sec1.lastLockState
              THEN 1 ELSE 0
        /\ notified.lockC = notified.lockT
        /\ lastLightState = (h_did.val \div 4) % 2
        /\ lastLockState = 1 - ((h_did.val \div 8) % 2)

\* An accepted light/lock value that repeats the light and lock bits
\* announced before has announced nothing.
C29_RepeatedPollSilent ==
    /\ h_did.key = LightLockStatus
    /\ (h_did.val \div 16) = 5
    /\ h_prev_sec1.lastLightState = 1
    /\ notified = NoNotes

-----------------------------------------------------------------------------
(* Protocol 1: detection of a wall panel and emulation of one               *)

\* A wall panel starting up (door button release), and a light/lock status
RxEmulationByte1 ==
    \E b \in { DoorButtonRelease, LightLockStatus, 80 }, more \in MoreInputs :
        CommsLoopSec1(b, FALSE, more)

SpecEmulation1 ==
    /\ Init1
    /\ [][ RxEmulationByte1 \/ IdleTick1 \/ WindowElapses \/ LongPause ]_vars

\* h: the last handler put an emulation poll into the queue
PollEnqueued ==
    \E k \in 1..Len(pkt_q) :
        /\ pkt_q[k].kind = "Poll"
        /\ \A j \in 1..Len(h_prev_q) : h_prev_q[j].id /= pkt_q[k].id

\* C30: protocol 1, every step: an emulation poll is enqueued only when bus
\* traffic has been seen, the detection window has elapsed and no wall panel
\* is detected; a tick that runs with traffic seen and the window elapsed,
\* and leaves no door or light status known, leaves emulation switched on;
\* and wallPanelDetected, once true, stays true with no poll enqueued.
C30_EmulationOnlyWithoutPanel ==
    [][ /\ PollEnqueued' =>
              serialDetected' /\ ~inWindow' /\ ~wallPanelDetected'
        /\ ( /\ h_event' /= "Elapse"
             /\ serialDetected /\ ~inWindow
             /\ doorState' = "Unknown" /\ lightState' = 2 )
           => emulateWallPanel'
        /\ wallPanelDetected => (wallPanelDetected' /\ ~PollEnqueued')
      ]_vars


\* the emulation poll the last handler put into the queue, as a set
NewPolls ==
    { k \in 1..Len(pkt_q) :
        /\ pkt_q[k].kind = "Poll"
        /\ \A j \in 1..Len(h_prev_q) : h_prev_q[j].id /= pkt_q[k].id }

\* C31: protocol 1, every step: the sequence index stays in 0..6; it moves
\* only when more than 250 ms have passed since the last poll, and then the
\* poll timer restarts and the index steps 0,1,..,6,4,5,6,4,..; once at 4 or
\* above it stays there; a handler enqueues at most one poll, and the poll
\* carries the table byte 0x35 0x35 0x33 0x33 0x38 0x3A 0x39 of the index
\* the handler started from.
C31_EmulationSequence ==
    [][ /\ stateIndex \in 0..6 /\ stateIndex' \in 0..6
        /\ secplus1States = << 53, 53, 51, 51, 56, 58, 57 >>
        /\ stateIndex >= 4 => stateIndex' >= 4
        /\ stateIndex' /= stateIndex
           => /\ since_request > PollPeriod
              /\ since_request' = 0
              /\ emulateWallPanel'
              /\ stateIndex' = IF stateIndex = 6 THEN 4 ELSE stateIndex + 1
        /\ Cardinality(NewPolls') <= 1
        /\ \A k \in NewPolls' :
              /\ stateIndex' /= stateIndex
              /\ k = Len(pkt_q')
              /\ pkt_q'[k].arg = secplus1States[stateIndex + 1]
      ]_vars

\* the poll 0x39 of the last table entry was enqueued and the index wrapped
\* to the entry 0x38
C31_WrappedToLastThree ==
    /\ stateIndex = 4
    /\ \E k \in NewPolls : pkt_q[k].arg = 57


-----------------------------------------------------------------------------
(* The recovery countdown with the requests that may arrive while it runs   *)

\* The timer keeps calling its callback while attached, and the restart the
\* callback ends in is carried out
SpecRestart ==
    /\ InitRecovery
    /\ [][ ButtonPress \/ RecoveryPause \/ TTCdelayLoop \/ RecoveryRestart
           \/ OpenRequest \/ CloseRequest ]_vars
    /\ WF_vars(TTCdelayLoop)
    /\ WF_vars(RecoveryRestart)

\* C32: a press that requests recovery has persisted the recovery-mode flag
\* and started a countdown of 6 ticks that ends in the restart, and from
\* there the restart eventually happens (the device comes up again with the
\* flag set), whatever requests arrive in between.
C32_RecoveryRestartFires ==
    (h_did.recovery /\ softAPmode /\ TTCcountdown = 6 /\ TTCtimerAttached
        /\ TTC_Action = "restart")
      ~> (h_event = "Init" /\ softAPmode)

-----------------------------------------------------------------------------
(* The countdown with the timer callback interleaved with a cancel          *)

\* A callback the timer task had already dispatched when another task
\* cancelled the countdown: it runs although the timer is detached.  The
\* read of --TTCcountdown races with the cancel's TTCcountdown = 0 and sees
\* the value before or after it.
LateTick ==
    /\ h_did.call /= "tick"
    /\ h_did.countdown > 0
    /\ TTCcountdown = 0
    /\ ~TTCtimerAttached
    /\ h_ttc.cancelled
    /\ h_ttc.late = 0
    /\ \E count \in { h_did.countdown, TTCcountdown } : TTCtick(count)

SpecRace ==
    /\ InitCancel
    /\ [][ CloseRequest \/ OpenRequest \/ TimerTick \/ LateTick
           \/ RxStatusCancel2 \/ RxByteTTC1 ]_vars

\* C33: once a countdown has been cancelled, and until a new one is started,
\* TTCcountdown is 0 and the timer is detached, and since the cancel no tick
\* has toggled the light or fired the end action, whether the cancel was
\* repeated or a timer callback was in flight when it happened.
C33_CancelHoldsAgainstTick ==
    h_ttc.cancelled
       => /\ TTCcountdown = 0
          /\ ~TTCtimerAttached
          /\ h_ttc.late = 0
          /\ h_did.call = "tick" => (h_did.set_light = << >> /\ h_did.end = "none")

-----------------------------------------------------------------------------
(* Button presses and their releases                                        *)

\* C34: both protocols: every button press in the queue (door, light or
\* lock) has the release of the same button and value directly behind it:
\* no press is accepted into the queue without its release.
C34_PressFollowedByRelease ==
    \A k \in 1..Len(pkt_q) :
        \A button \in {"Door", "Light", "Lock"} :
            pkt_q[k].kind = button \o "Press"
               => /\ k < Len(pkt_q)
                  /\ pkt_q[k + 1].kind = button \o "Release"
                  /\ pkt_q[k + 1].arg = pkt_q[k].arg

-----------------------------------------------------------------------------
(* The end of a countdown and the state of the door                         *)

\* C35: a tick of the countdown timer that finds the door Closed sends no
\* door command.
C35_NoCloseCommandWhenClosed ==
    (h_did.call = "tick" /\ garage_door.current_state = "Closed")
       => /\ h_did.door = << >>
          /\ \A k \in 1..Len(pkt_q) :
                pkt_q[k].kind = "DoorPress"
                   => \E j \in 1..Len(h_prev_q) : h_prev_q[j].id = pkt_q[k].id

\* Status input that brings the door to Opening, Closing or Closed (to
\* Closed with or without a Closing status before it)
RxDoorStatus ==
    \/ \E f \in [ cmd : {"Status"}, door : {"Opening", "Closing", "Closed"},
                  light : {FALSE}, lock : {FALSE} ] :
           CommsLoopSec2(TRUE, f, FALSE)
    \/ \E b \in { DoorStatus, 80 + 1, 80 + 4, 80 + 5 } :
           CommsLoopSec1(b, FALSE, FALSE)

SpecRequests ==
    /\ InitCancel
    /\ [][ OpenRequest \/ CloseRequest \/ TimerTick \/ RxDoorStatus ]_vars

\* C36: protocol 2: after a processed Status frame target_lock is Locked when
\* the frame's lock field is set and Unlocked otherwise.
C36_TargetLockFollowsStatus ==
    (doorControlType = 2 /\ h_event = "Status")
       => garage_door.target_lock = (IF h_did.val = 1 THEN "Locked" ELSE "Unlocked")

-----------------------------------------------------------------------------
(* The service tick with a command entry point running in the bridge's task *)
(* between its dequeue and its requeue                                      *)

\* send_get_status called from the other task while the tick is inside
\* process_PacketAction
RacedTick2 ==
    /\ h_next_id < MaxEnqQueue + 2
    /\ \E busAsserted \in BOOLEAN :
          CommsLoopSec2With(FALSE, NoFrame, busAsserted, << GetStatusAction >>)

SpecInterleave ==
    /\ InitQueue
    /\ [][ TxTick2 \/ RacedTick2 \/ QueueDoorCommand \/ QueueGetStatus
           \/ TxTick1 \/ LongPause ]_vars

\* C37: a send that fails with retryCount below MAX_COMMS_RETRY leaves its
\* action at the head of the queue, whatever was enqueued meanwhile.
C37_FailedSendRequeued ==
    (h_tx.attempt /\ ~h_tx.ok /\ h_tx.retry < MAX_COMMS_RETRY)
       => (pkt_q /= << >> /\ Head(pkt_q).id = h_tx.id)

-----------------------------------------------------------------------------
(* The safety tests of the open and close requests                          *)

\* h: the door actions the last handler put into the queue
NewDoorActions ==
    { pkt_q[k].arg : k \in { j \in 1..Len(pkt_q) :
        /\ pkt_q[j].kind \in {"DoorPress", "DoorRelease"}
        /\ \A i \in 1..Len(h_prev_q) : h_prev_q[i].id /= pkt_q[j].id } }

\* C38: an open request with the door Open sends no door command, with the
\* door Closing it sends Stop and nothing else; a close request with the
\* door Closed sends no door command and leaves the countdown as it was
\* (none is started), with the door Opening it sends Stop and leaves the
\* countdown as it was.
C38_RequestSafetyTests ==
    /\ (h_did.call = "open" /\ garage_door.current_state = "Open")
       => (h_did.door = << >> /\ NewDoorActions = {})
    /\ (h_did.call = "open" /\ garage_door.current_state = "Closing")
       => (h_did.door = << "Stop" >> /\ NewDoorActions \subseteq {"Stop"})
    /\ (h_did.call = "close" /\ garage_door.current_state = "Closed")
       => /\ h_did.door = << >>
          /\ pkt_q = h_prev_q
          /\ TTCcountdown = h_did.countdown
          /\ TTCtimerAttached = h_did.attached
    /\ (h_did.call = "close" /\ garage_door.current_state = "Opening")
       => /\ h_did.door = << "Stop" >>
          /\ NewDoorActions \subseteq {"Stop"}
          /\ TTCcountdown = h_did.countdown
          /\ TTCtimerAttached = h_did.attached

\* An open request made with the door Closing has put a Stop into the queue
C38_OpenWhileClosingStops ==
    /\ h_did.call = "open"
    /\ garage_door.current_state = "Closing"
    /\ NewDoorActions = {"Stop"}

-----------------------------------------------------------------------------
(* The motion flag raised by an obstruction, and the motion-clear timer     *)

\* The end of one pass of comms_loop: the motion-clear timer, then
\* obstruction_timer.  expired: millis() > garage_door.motion_timer.  The
\* timer value is written by the key and motion handlers only; it holds 0
\* from start-up when none of them has run, and is then expired at every
\* pass.
LoopPass ==
    \E expired \in BOOLEAN :
    \E pinHigh \in BOOLEAN :
        obstruction_timer(garage_door.motion /\ expired, pinHigh)

SpecMotion ==
    /\ InitObstruction
    /\ [][ Pulse \/ ObstructionPause \/ LoopPass ]_vars

\* C39: with the obstruction motion trigger enabled: a pass that detects an
\* obstruction raises the motion flag; while the door stays obstructed the
\* flag stays true; the pass in which the obstruction clears clears the flag
\* with one motion notification.
C39_MotionHeldWhileObstructed ==
    [][ "obstruction" \in motionTriggers
        => /\ (~garage_door.obstructed /\ garage_door'.obstructed)
              => garage_door'.motion
           /\ (garage_door.obstructed /\ garage_door'.obstructed
                 /\ garage_door.motion)
              => garage_door'.motion
           /\ (garage_door.obstructed /\ ~garage_door'.obstructed)
              => (~garage_door'.motion /\ notified'.motion = 1)
      ]_vars

=============================================================================
